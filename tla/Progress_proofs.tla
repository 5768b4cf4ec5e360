---------------------------- MODULE Progress_proofs ----------------------------
(***************************************************************************)
(* Machine-checked proofs, for every value of the constants, that a run    *)
(* tells the truth of itself: in its events, on the display that draws     *)
(* them, in its log, in the rows it leaves and in its report (Progress).   *)
(*                                                                         *)
(* The invariant says of each event what may come before it, where the run *)
(* is by what it told last, and of each surface what it holds by the       *)
(* events or the counters it is made from.                                 *)
(***************************************************************************)
EXTENDS Progress, Lists_proofs

-----------------------------------------------------------------------------
(* Progress: the events, by what came before them *)

OpenSweep == {"sweep_started", "sweep_progress"}
EndKinds == {"completed", "aborted"}
EventKinds == {"scan_started", "scan_completed", "asset_started", "asset_finished"} \cup SweepKinds
              \cup WithinKinds \cup EndKinds

CountsRecords == [scanned : Nat, count : [ItemKinds -> Nat], chunks : Nat, embedded : Nat]
Words == {"purged", "kept", "ocr", "caption", "embed", "read", "unread", "blank"}
Details == Nat \cup Words \cup (ItemKinds \X Nat) \cup CountsRecords
Events == [kind : EventKinds, idx : Nat, detail : Details]

SentIn(t, kinds) == {i \in DOMAIN t : t[i].kind \in kinds}

SentUpTo(t, kinds, n) == {i \in SentIn(t, kinds) : i <= n}

Turns == {"asset_started", "asset_finished"}
Flying(t, n) ==
  LET bounds == SentUpTo(t, Turns, n)
  IN IF bounds # {} /\ t[Max(bounds)].kind = "asset_started" THEN t[Max(bounds)].idx ELSE 0

PurgesIn(t) == {i \in SentIn(t, {"sweep_progress"}) : t[i].detail = "purged"}

\* What an event after the first n of t may be, and what it may say.
FollowsScan(b, n, e) ==
  /\ (e.kind = "scan_started") = (n = 0)
  /\ (e.kind = "scan_completed") = (n = 1)
  /\ e.kind = "scan_completed" => e.idx = Len(b.assets)

FollowsSweep(b, t, n, e) ==
  /\ e.kind = "sweep_started" => e.idx = b.stored
  /\ e.kind = "sweep_progress" => e.idx <= b.stored
  /\ e.kind \in SweepKinds => \A j \in 3 .. n : t[j].kind \in OpenSweep
  /\ n > 0 => (t[n].kind \in OpenSweep) = (e.kind \in {"sweep_progress", "sweep_completed"})

FollowsAsset(b, t, n, e) ==
  /\ e.kind = "asset_started" => /\ Flying(t, n) = 0 /\ e.idx \in 1 .. Len(b.assets)
                                 /\ e.idx = Cardinality(SentUpTo(t, {"asset_started"}, n)) + 1
  /\ e.kind \in WithinKinds => Flying(t, n) # 0
  /\ e.kind \in {"asset_phase", "asset_chunked", "asset_timings", "asset_finished"} => e.idx = Flying(t, n)
  /\ e.kind = "asset_timings" => e.detail \in Nat /\ \A j \in SentUpTo(t, {"asset_timings"}, n) : t[j].idx # e.idx
  /\ e.kind = "asset_finished" => e.detail \in ItemKinds \X Nat

FollowsEnd(t, n, e) ==
  /\ e.kind \in EndKinds => Flying(t, n) = 0
  /\ SentUpTo(t, EndKinds, n) = {}

Follows(b, t, n, e) ==
  FollowsScan(b, n, e) /\ FollowsSweep(b, t, n, e) /\ FollowsAsset(b, t, n, e) /\ FollowsEnd(t, n, e)

AllFollow(b, t) == \A i \in DOMAIN t : Follows(b, t, i - 1, t[i])

-----------------------------------------------------------------------------
(* Progress: where the run is *)

AssetStages == {"pages", "vision", "quiet", "chunk", "store", "embed", "tally"}
LoopStages == AssetStages \cup {"next"}
Ends == {"summary", "returned", "reported"}
AfterLoop == {"jobs", "job_progress", "job_finish", "row", "terminal"} \cup Ends
NotBegun == {"start", "scan", "setup", "failed", "gone", "killed"}
Stages == NotBegun \cup {"sweep", "seed"} \cup LoopStages \cup AfterLoop

BoardIs(b) ==
  /\ b = [live |-> b.live, label |-> b.label, len |-> b.len, pos |-> b.pos, clock |-> b.clock, path |-> b.path,
          scan |-> b.scan, named |-> b.named, timed |-> b.timed, slowest |-> b.slowest]
  /\ b.live \in BOOLEAN /\ b.label \in {"", "scan", "sweep", "ingest", "closed"} /\ b.len \in Nat /\ b.pos \in Int
  /\ b.clock \in BOOLEAN
  /\ b.path \in Nat /\ b.scan \in Nat /\ b.named \in SUBSET Nat /\ b.timed \in Seq(Nat \X Details)

Courses == [at : Nat, purged : Nat, stopped : BOOLEAN, chunks : Nat, page : Nat, blank : Nat,
            item : ItemKinds \cup {"none"}]
Totals == [items : Seq(ItemKinds), count : [ItemKinds -> Nat], chunks : Nat, embedded : Nat, pages : Nat,
           unread : Nat, samples : Seq(Nat), blank : Nat]

CourseOf(at, purged, stopped, chunks, page, blank, item) ==
  [at |-> at, purged |-> purged, stopped |-> stopped, chunks |-> chunks, page |-> page, blank |-> blank,
   item |-> item]
TotalsOf(items, count, chunks, embedded, pages, unread, samples, blank) ==
  [items |-> items, count |-> count, chunks |-> chunks, embedded |-> embedded, pages |-> pages,
   unread |-> unread, samples |-> samples, blank |-> blank]

ProgressTyped ==
  /\ begun \in Begins /\ stage \in Stages /\ presses \in 0 .. 2 /\ failures \in Nat
  /\ course \in Courses /\ totals \in Totals
  /\ told \in Seq(Events) /\ shown \in 0 .. Len(told)
  /\ BoardIs(board)

\* Where the loop stands at each stage, and how many items are done.
Located ==
  /\ stage \in NotBegun => course = FreshCourse
  /\ stage \in {"sweep", "seed"} => course.at <= begun.stored /\ ~course.stopped
  /\ stage = "seed" => course.at = begun.stored \/ Pressed
  /\ stage \in LoopStages \cup AfterLoop => course.at <= Len(begun.assets)
  /\ stage \in AssetStages => course.at > 0
  /\ stage \in AfterLoop /\ ~course.stopped => course.at = Len(begun.assets)
  /\ course.stopped => Pressed
  /\ stage = "tally" => /\ course.item \in ItemKinds
                        /\ course.item \notin {"new", "updated"} => course.chunks = 0
  /\ Len(totals.items) = IF stage \in AssetStages THEN course.at - 1
                         ELSE IF stage \in LoopStages \cup AfterLoop THEN course.at ELSE 0

\* What each stage has told: scan and sweep, assets, purges, end.
ToldSoFar ==
  /\ stage \in {"start", "killed"} => told = << >>
  /\ stage = "scan" => Len(told) = 1
  /\ stage \in {"failed", "gone"} => Len(told) \in 1 .. 2
  /\ stage = "setup" => Len(told) = 2
  /\ stage \notin NotBegun => Len(told) >= 2
  /\ (stage = "sweep") = (told # << >> /\ told[Len(told)].kind \in OpenSweep)
  /\ stage = "sweep" => \A j \in 3 .. Len(told) : told[j].kind \in OpenSweep

ToldOfAssets ==
  /\ Flying(told, Len(told)) = IF stage \in AssetStages THEN course.at ELSE 0
  /\ Cardinality(SentIn(told, {"asset_started"})) = IF stage \in LoopStages \cup AfterLoop THEN course.at ELSE 0
  /\ stage \in LoopStages =>
       \A i \in SentIn(told, {"asset_timings"}) :
         told[i].idx <= course.at /\ (told[i].idx = course.at => stage \in {"tally", "next"})
  /\ stage \in NotBegun \cup {"sweep", "seed"} => SentIn(told, {"asset_timings"}) = {}

ToldOfSweep ==
  /\ Cardinality(PurgesIn(told)) = course.purged
  /\ stage \in NotBegun \cup {"sweep", "seed"} => Cardinality(SentIn(told, {"sweep_progress"})) = course.at
  /\ stage \in LoopStages \cup AfterLoop /\ ~course.stopped =>
       Cardinality(SentIn(told, {"sweep_progress"})) = begun.stored

ToldOfEnd ==
  /\ SentIn(told, EndKinds) = IF stage \in Ends THEN {Len(told)} ELSE {}
  /\ stage \in Ends => /\ told[Len(told)].kind = IF course.stopped THEN "aborted" ELSE "completed"
                       /\ told[Len(told)].detail = Counts

Finishes == SentIn(told, {"asset_finished"})

Summed(f) == FoldFunction(+, 0, f)
CountIn(s, k) == Cardinality({i \in DOMAIN s : s[i] = k})

\* The items told are those counted.
ToldOfItems ==
  /\ Cardinality(Finishes) = Len(totals.items)
  /\ \A i \in Finishes : told[i].detail[1] = totals.items[Cardinality(SentUpTo(told, {"asset_finished"}, i))]
  /\ totals.chunks = Summed([i \in Finishes |-> told[i].detail[2]])

CountsFit ==
  /\ \A k \in ItemKinds : totals.count[k] = CountIn(totals.items, k)
  /\ totals.embedded = IF begun.embeds THEN totals.chunks ELSE 0

-----------------------------------------------------------------------------
(* Progress: the display and what is left behind *)

\* The board b of a run g, after n events, the last of them e, with f in flight.
BarIs(g, b, n, e, f) ==
  /\ e.kind \notin EndKinds
  /\ b.scan = IF n > 1 THEN Len(g.assets) ELSE 0
  /\ b.label = IF n = 1 THEN "scan" ELSE IF e.kind \in OpenSweep THEN "sweep" ELSE "ingest"
  /\ b.len = IF n = 1 THEN 0 ELSE IF e.kind \in OpenSweep THEN g.stored ELSE Len(g.assets)
  /\ b.pos <= b.len
  /\ b.clock = (f # 0) /\ b.path = f
  /\ f # 0 => b.pos = f - 1

BarFits == BarIs(begun, board, shown, told[shown], Flying(told, shown))

\* The times of the display are those of the first n events.
TimesAre(timed, t, n) ==
  /\ Len(timed) = Cardinality(SentUpTo(t, {"asset_timings"}, n))
  /\ {timed[k] : k \in 1 .. Len(timed)} = {<<t[i].idx, t[i].detail>> : i \in SentUpTo(t, {"asset_timings"}, n)}
  /\ \A k, l \in 1 .. Len(timed) : timed[k][1] = timed[l][1] => k = l

TimesFit == TimesAre(board.timed, told, shown)

\* The display is what the events it has drawn make of it, however far the run is ahead.
BoardFits ==
  ~begun.json =>
    /\ shown = 0 => board = FreshBoard
    /\ shown > 0 /\ board.live => BarFits
    /\ Flying(told, shown) # 0 => Flying(told, shown) \in board.named
    /\ TimesFit
    /\ shown > 0 /\ told[shown].kind = "completed" => board.slowest = Slowest(board.timed)

RecordsIn(s, what) == {i \in DOMAIN s : s[i][1] = what}

IsList(s) == Len(s) \in Nat /\ s = [i \in 1 .. Len(s) |-> s[i]]

LogIs(log) ==
  /\ log = [kept |-> log.kept, removed |-> log.removed, records |-> log.records] /\ IsList(log.records)
  /\ Cardinality(log.kept) <= KeepRecent
  /\ \A k \in log.kept, r \in log.removed : begun.logs[k] <= begun.logs[r]

\* What a summary that is written says.
Summary(r) ==
  /\ r[1] = "summary" /\ r[4] = totals.count["error"] /\ r[5] = totals.pages
  /\ r[7] # << >> => r[7][1] <= r[7][2] /\ r[7][2] <= r[7][3]

\* The records s tell what the run counted.
RecordsFit(s) ==
  /\ Cardinality(RecordsIn(s, "purge")) = course.purged
  /\ Cardinality(RecordsIn(s, "error")) = totals.count["error"]
  /\ Cardinality(RecordsIn(s, "ocr")) = totals.pages
  /\ RecordsIn(s, "summary") = IF stage \in {"returned", "reported"} THEN {Len(s)} ELSE {}
  /\ stage \in {"returned", "reported"} => Summary(s[Len(s)])

\* The log, the rows of the tables and the report, each once it is there.
LogFits ==
  /\ stage = "start" => runLog = Untold /\ totals.pages = 0
  /\ runLog # Untold => LogIs(runLog) /\ (stage # "killed" => RecordsFit(runLog.records))

JobIs(job) == job # Untold => job = [is |-> "job", status |-> job.status, progress |-> job.progress]

\* The counts c of a table are those of the run.
CountsAre(c) == \A k \in DOMAIN c : c[k] = totals.count[k]

JobFits(job) ==
  /\ stage \in {"job_progress", "job_finish"} => job # Untold
  /\ job # Untold => stage \in {"job_progress", "job_finish", "row", "terminal"} \cup Ends
  /\ job # Untold /\ job.progress # Untold =>
       /\ stage \in {"job_finish", "row", "terminal"} \cup Ends
       /\ CountsAre(job.progress.count) /\ job.progress.chunks = totals.chunks

RunRowFits(row) ==
  row # Untold => stage \in {"terminal"} \cup Ends /\ row.items = totals.items /\ CountsAre(row.count)

LedgerFits ==
  /\ ledger = [job |-> ledger.job, run |-> ledger.run, ocr |-> ledger.ocr] /\ JobIs(ledger.job)
  /\ stage # "killed" => ledger.ocr = totals.pages /\ RunRowFits(ledger.run) /\ JobFits(ledger.job)

PrintedFits ==
  printed # Untold =>
    /\ stage = "reported"
    /\ printed.items = totals.items /\ printed.counts = Counts /\ printed.purged = course.purged

\* The inductive invariant.
ProgressInv ==
  /\ ProgressTyped /\ Located /\ AllFollow(begun, told)
  /\ ToldSoFar /\ ToldOfAssets /\ ToldOfSweep /\ ToldOfEnd /\ ToldOfItems /\ CountsFit
  /\ BoardFits /\ LogFits /\ LedgerFits /\ PrintedFits

-----------------------------------------------------------------------------
(* Progress: one event more *)

\* A list of events with one event more.
LEMMA OneEventMore ==
  ASSUME NEW t \in Seq(Events), NEW e \in Events
  PROVE  /\ t \o <<e>> = Append(t, e) /\ t \o << >> = t
         /\ Append(t, e) \in Seq(Events)
         /\ Len(t) \in Nat /\ Len(Append(t, e)) = Len(t) + 1
         /\ DOMAIN t = 1 .. Len(t) /\ DOMAIN Append(t, e) = 1 .. Len(t) + 1
         /\ \A i \in 1 .. Len(t) : Append(t, e)[i] = t[i] /\ t[i] \in Events
         /\ Append(t, e)[Len(t) + 1] = e
OBVIOUS

\* What was sent of some kinds, with one event more.
LEMMA SentOneMore ==
  ASSUME NEW t \in Seq(Events), NEW e \in Events, NEW kinds
  PROVE  /\ SentIn(Append(t, e), kinds) =
              SentIn(t, kinds) \cup (IF e.kind \in kinds THEN {Len(t) + 1} ELSE {})
         /\ SentIn(t, kinds) \in SUBSET (1 .. Len(t))
         /\ IsFiniteSet(SentIn(t, kinds)) /\ Cardinality(SentIn(t, kinds)) \in Nat
         /\ Cardinality(SentIn(Append(t, e), kinds)) =
              Cardinality(SentIn(t, kinds)) + (IF e.kind \in kinds THEN 1 ELSE 0)
<1>1. SentIn(Append(t, e), kinds) = SentIn(t, kinds) \cup (IF e.kind \in kinds THEN {Len(t) + 1} ELSE {})
  BY OneEventMore DEF SentIn
<1>2. SentIn(t, kinds) \in SUBSET (1 .. Len(t)) /\ Len(t) \in Nat
  BY OneEventMore DEF SentIn
<1>3. IsFiniteSet(SentIn(t, kinds)) /\ Cardinality(SentIn(t, kinds)) \in Nat
  BY <1>2, Ranks, Zenon
<1>4. Len(t) + 1 \notin SentIn(t, kinds)
  BY <1>2
<1>5. Cardinality(SentIn(t, kinds) \cup {Len(t) + 1}) = Cardinality(SentIn(t, kinds)) + 1
  BY <1>3, <1>4, FS_AddElement
<1>6. /\ e.kind \in kinds => SentIn(Append(t, e), kinds) = SentIn(t, kinds) \cup {Len(t) + 1}
      /\ e.kind \notin kinds => SentIn(Append(t, e), kinds) = SentIn(t, kinds)
  BY <1>1
<1>7. Cardinality(SentIn(Append(t, e), kinds)) = Cardinality(SentIn(t, kinds)) + (IF e.kind \in kinds THEN 1 ELSE 0)
  <2>1. CASE e.kind \in kinds
    BY <1>5, <1>6, <2>1
  <2>2. CASE e.kind \notin kinds
    BY <1>3, <1>6, <2>2
  <2> QED
    BY <2>1, <2>2
<1> QED
  BY <1>1, <1>2, <1>3, <1>7

\* What was sent of some kinds up to n is a finite set of positions, and stays what it is.
LEMMA SentUpToKept ==
  ASSUME NEW t \in Seq(Events), NEW e \in Events, NEW kinds, NEW n \in 0 .. Len(t)
  PROVE  /\ SentUpTo(Append(t, e), kinds, n) = SentUpTo(t, kinds, n)
         /\ SentUpTo(t, kinds, n) \in SUBSET (1 .. n) /\ SentUpTo(t, kinds, n) \in SUBSET (1 .. Len(t))
         /\ SentUpTo(t, kinds, n) \in SUBSET Nat /\ IsFiniteSet(SentUpTo(t, kinds, n))
         /\ SentUpTo(t, kinds, Len(t)) = SentIn(t, kinds)
<1>1. SentUpTo(t, kinds, n) \in SUBSET (1 .. n) /\ Len(t) \in Nat /\ n \in Nat
  BY OneEventMore DEF SentIn, SentUpTo
<1>2. IsFiniteSet(SentUpTo(t, kinds, n))
  BY <1>1, Ranks, Zenon
<1>3. SentUpTo(Append(t, e), kinds, n) = SentUpTo(t, kinds, n)
  BY OneEventMore DEF SentIn, SentUpTo
<1>4. SentUpTo(t, kinds, Len(t)) = SentIn(t, kinds)
  BY OneEventMore DEF SentIn, SentUpTo
<1> QED
  BY <1>1, <1>2, <1>3, <1>4

\* What was sent of some kinds up to n, by what was sent before n.
LEMMA SentUpToMore ==
  ASSUME NEW t \in Seq(Events), NEW kinds, NEW n \in 1 .. Len(t)
  PROVE  /\ SentUpTo(t, kinds, n) = SentUpTo(t, kinds, n - 1) \cup (IF t[n].kind \in kinds THEN {n} ELSE {})
         /\ IsFiniteSet(SentUpTo(t, kinds, n - 1)) /\ n \notin SentUpTo(t, kinds, n - 1)
         /\ Cardinality(SentUpTo(t, kinds, n)) =
              Cardinality(SentUpTo(t, kinds, n - 1)) + (IF t[n].kind \in kinds THEN 1 ELSE 0)
         /\ Cardinality(SentUpTo(t, kinds, n - 1)) \in Nat
<1>1. SentUpTo(t, kinds, n) = SentUpTo(t, kinds, n - 1) \cup (IF t[n].kind \in kinds THEN {n} ELSE {})
  <2>1. DOMAIN t = 1 .. Len(t)
    OBVIOUS
  <2>2. ASSUME NEW i \in DOMAIN t PROVE i <= n <=> i <= n - 1 \/ i = n
    BY <2>1
  <2> QED
    BY <2>1, <2>2 DEF SentUpTo, SentIn
<1>2. SentUpTo(t, kinds, n - 1) \in SUBSET (1 .. (n - 1)) /\ n - 1 \in Nat /\ 1 \in Int
  BY DEF SentUpTo, SentIn
<1>3. IsFiniteSet(SentUpTo(t, kinds, n - 1)) /\ Cardinality(SentUpTo(t, kinds, n - 1)) \in Nat
  BY <1>2, Ranks, Zenon
<1>4. n \notin SentUpTo(t, kinds, n - 1)
  BY <1>2
<1>5. Cardinality(SentUpTo(t, kinds, n - 1) \cup {n}) = Cardinality(SentUpTo(t, kinds, n - 1)) + 1
  BY <1>3, <1>4, FS_AddElement
<1>6. /\ t[n].kind \in kinds => SentUpTo(t, kinds, n) = SentUpTo(t, kinds, n - 1) \cup {n}
      /\ t[n].kind \notin kinds => SentUpTo(t, kinds, n) = SentUpTo(t, kinds, n - 1)
  BY <1>1
<1>7. Cardinality(SentUpTo(t, kinds, n)) =
        Cardinality(SentUpTo(t, kinds, n - 1)) + (IF t[n].kind \in kinds THEN 1 ELSE 0)
  <2>1. CASE t[n].kind \in kinds
    BY <1>5, <1>6, <2>1
  <2>2. CASE t[n].kind \notin kinds
    BY <1>3, <1>6, <2>2
  <2> QED
    BY <2>1, <2>2
<1> QED
  BY <1>1, <1>3, <1>4, <1>7

\* The asset in flight after the first events is not changed by what follows.
LEMMA FlyingKept ==
  ASSUME NEW t \in Seq(Events), NEW e \in Events, NEW n \in 0 .. Len(t)
  PROVE  Flying(Append(t, e), n) = Flying(t, n) /\ Flying(t, n) \in Nat
<1> DEFINE bounds == SentUpTo(t, Turns, n)
<1>1. SentUpTo(Append(t, e), Turns, n) = bounds /\ bounds \in SUBSET Nat /\ IsFiniteSet(bounds)
      /\ bounds \in SUBSET (1 .. Len(t))
  BY SentUpToKept
<1> HIDE DEF bounds
<1>2. bounds # {} => Max(bounds) \in 1 .. Len(t)
  BY <1>1, GreatestOfSome
<1>3. bounds # {} => Append(t, e)[Max(bounds)] = t[Max(bounds)] /\ t[Max(bounds)].idx \in Nat
  BY <1>2, OneEventMore DEF Events
<1> QED
  BY <1>1, <1>3 DEF Flying, bounds

\* A start puts its asset in flight, a finish lands it, and nothing else matters.
LEMMA FlyingAfter ==
  ASSUME NEW t \in Seq(Events), NEW n \in 1 .. Len(t)
  PROVE  Flying(t, n) = IF t[n].kind = "asset_started" THEN t[n].idx
                        ELSE IF t[n].kind = "asset_finished" THEN 0 ELSE Flying(t, n - 1)
<1> DEFINE bounds == SentUpTo(t, Turns, n)
           before == SentUpTo(t, Turns, n - 1)
<1>1. bounds = before \cup (IF t[n].kind \in Turns THEN {n} ELSE {})
  BY SentUpToMore
<1>2. CASE t[n].kind \in Turns
  <2>1. bounds \in SUBSET Nat /\ IsFiniteSet(bounds) /\ n \in bounds /\ \A m \in bounds : m <= n
    <3>1. n \in 0 .. Len(t) /\ Len(t) \in Nat
      OBVIOUS
    <3>2. bounds \in SUBSET (1 .. n) /\ n \in Nat
      BY <3>1 DEF SentUpTo, SentIn
    <3>3. IsFiniteSet(bounds)
      BY <3>2, Ranks, Zenon
    <3>4. bounds \in SUBSET Nat /\ \A m \in bounds : m <= n
      BY <3>2
    <3> QED
      BY <1>1, <1>2, <3>3, <3>4
  <2> HIDE DEF bounds
  <2>2. Max(bounds) = n
    <3>1. Max(bounds) \in bounds /\ Max(bounds) >= n
      BY <2>1, GreatestOfSome
    <3>2. Max(bounds) \in Nat /\ n \in Nat /\ Max(bounds) <= n
      BY <2>1, <3>1
    <3> QED
      BY <3>1, <3>2
  <2> QED
    BY <1>2, <2>1, <2>2 DEF Flying, bounds, Turns
<1>3. CASE t[n].kind \notin Turns
  <2>1. bounds = before
    BY <1>1, <1>3
  <2> QED
    BY <1>3, <2>1 DEF Flying, Turns
<1> QED
  BY <1>2, <1>3

\* Before the first event no asset is in flight.
LEMMA NothingFlies == Flying(<< >>, 0) = 0
<1>1. SentUpTo(<< >>, Turns, 0) = {}
  BY DEF SentUpTo, SentIn
<1> QED
  BY <1>1 DEF Flying

\* Whether an event may follow the first ones depends on them alone.
LEMMA FollowsKept ==
  ASSUME NEW b, NEW t \in Seq(Events), NEW e \in Events, NEW n \in 0 .. Len(t), NEW d
  PROVE  Follows(b, Append(t, e), n, d) = Follows(b, t, n, d)
<1>1. FollowsSweep(b, Append(t, e), n, d) = FollowsSweep(b, t, n, d)
  BY OneEventMore DEF FollowsSweep
<1>2. FollowsAsset(b, Append(t, e), n, d) = FollowsAsset(b, t, n, d)
  <2>1. \A i \in SentUpTo(t, {"asset_timings"}, n) : Append(t, e)[i] = t[i]
    BY OneEventMore, SentUpToKept
  <2>2. /\ SentUpTo(Append(t, e), {"asset_timings"}, n) = SentUpTo(t, {"asset_timings"}, n)
        /\ SentUpTo(Append(t, e), {"asset_started"}, n) = SentUpTo(t, {"asset_started"}, n)
    BY SentUpToKept
  <2> QED
    BY <2>1, <2>2, FlyingKept DEF FollowsAsset
<1>3. FollowsEnd(Append(t, e), n, d) = FollowsEnd(t, n, d)
  BY SentUpToKept, FlyingKept DEF FollowsEnd
<1> QED
  BY <1>1, <1>2, <1>3 DEF Follows

\* What may come next may come.
LEMMA OneMoreFollows ==
  ASSUME NEW b, NEW t \in Seq(Events), NEW e \in Events, AllFollow(b, t), Follows(b, t, Len(t), e)
  PROVE  AllFollow(b, Append(t, e))
<1>1. ASSUME NEW i \in 1 .. Len(t) PROVE Follows(b, Append(t, e), i - 1, Append(t, e)[i])
  <2>1. i - 1 \in 0 .. Len(t) /\ Append(t, e)[i] = t[i] /\ i \in DOMAIN t
    BY OneEventMore
  <2> QED
    BY <2>1, FollowsKept DEF AllFollow
<1>2. Follows(b, Append(t, e), Len(t), e)
  BY FollowsKept, OneEventMore
<1>3. \A i \in DOMAIN Append(t, e) : i \in 1 .. Len(t) \/ i = Len(t) + 1
  BY OneEventMore
<1>4. (Len(t) + 1) - 1 = Len(t) /\ Append(t, e)[Len(t) + 1] = e
  BY OneEventMore
<1> QED
  BY <1>1, <1>2, <1>3, <1>4 DEF AllFollow

-----------------------------------------------------------------------------
(* Progress: the state is typed *)

\* What a run meets is of its type.
LEMMA BegunIs ==
  ASSUME NEW b \in Begins
  PROVE  /\ b.stored \in Nat /\ b.pages \in Nat /\ Len(b.assets) \in Nat /\ b.embeds \in BOOLEAN
         /\ b.logs \in Seq(Nat) /\ \A i, j \in DOMAIN b.logs : i < j => b.logs[i] <= b.logs[j]
<1>1. b.assets \in Seq({"text", "image", "pdf", "code", "other"}) /\ b.stored \in Nat /\ b.pages \in Nat
      /\ b.logs \in Seq(Nat) /\ b.embeds \in BOOLEAN
  BY ProgressAssumption
<1>2. \A i, j \in DOMAIN b.logs : i < j => b.logs[i] <= b.logs[j]
  BY ProgressAssumption
<1> QED
  BY <1>1, <1>2

\* Where the run may go.
LEMMA StagesTyped ==
  ASSUME ProgressTyped, ProgressNext
  PROVE  begun' = begun /\ stage' \in Stages /\ presses' \in 0 .. 2 /\ failures' \in Nat
<1> USE DEF ProgressTyped, Stages, NotBegun, LoopStages, AssetStages, AfterLoop, Ends
<1>1. CASE OpenLog
  BY <1>1 DEF OpenLog, Moves, Quietly
<1>2. CASE ScanEnds
  BY <1>2 DEF ScanEnds, Moves, Quietly
<1>3. CASE RunFails
  BY <1>3 DEF RunFails, Fails, May
<1>4. CASE SweepBegins
  BY <1>4 DEF SweepBegins, Quietly
<1>5. CASE Examine
  BY <1>5 DEF Examine, Fails, May, Quietly
<1>6. CASE SweepEnds
  BY <1>6 DEF SweepEnds, Moves, Quietly
<1>7. CASE SeedStopped
  BY <1>7 DEF SeedStopped, Moves, Quietly
<1>8. CASE LoopStops
  BY <1>8 DEF LoopStops, Moves, Quietly
<1>9. CASE AssetStarts
  BY <1>9 DEF AssetStarts, Quietly
<1>10. CASE AssetPasses
  BY <1>10 DEF AssetPasses, Quietly, Item
<1>11. CASE CodeStored
  BY <1>11 DEF CodeStored, Quietly, Item
<1>12. CASE AssetFails
  BY <1>12 DEF AssetFails, Fails, May, Item
<1>13. CASE Vision
  BY <1>13 DEF Vision, Moves, Quietly
<1>14. CASE PageRead
  BY <1>14 DEF PageRead, Quietly
<1>15. CASE PagesCancelled
  BY <1>15 DEF PagesCancelled, Quietly, Item
<1>16. CASE PagesEnd
  BY <1>16 DEF PagesEnd, Moves, Quietly
<1>17. CASE Chunks
  BY <1>17 DEF Chunks, Moves, Quietly
<1>18. CASE Stores
  BY <1>18 DEF Stores, Moves, Quietly
<1>19. CASE Embeds
  BY <1>19 DEF Embeds, Quietly, Item
<1>20. CASE AssetEnds
  BY <1>20 DEF AssetEnds, Moves, Quietly
<1>21. CASE CreateJob
  BY <1>21 DEF CreateJob, Quietly, Fails, May
<1>22. CASE UpdateJob
  BY <1>22 DEF UpdateJob, Moves, Quietly, Fails, May
<1>23. CASE FinishJob
  BY <1>23 DEF FinishJob, Moves, Quietly, Fails, May
<1>24. CASE RecordRun
  BY <1>24 DEF RecordRun, Moves, Quietly, Fails, May
<1>25. CASE TellEnd
  BY <1>25 DEF TellEnd, Moves, Quietly
<1>26. CASE Summarize
  BY <1>26 DEF Summarize, Moves, Quietly
<1>27. CASE Press
  BY <1>27 DEF Press, Interrupted, Quit, Pressed
<1>28. CASE Handle
  BY <1>28 DEF Handle, Listening
<1>29. CASE StdoutCloses
  BY <1>29 DEF StdoutCloses, Listening
<1>30. CASE Join
  BY <1>30 DEF Join
<1> QED
  BY <1>1, <1>2, <1>3, <1>4, <1>5, <1>6, <1>7, <1>8, <1>9, <1>10, <1>11, <1>12, <1>13, <1>14, <1>15,
     <1>16, <1>17, <1>18, <1>19, <1>20, <1>21, <1>22, <1>23, <1>24, <1>25, <1>26, <1>27, <1>28, <1>29, <1>30 DEF ProgressNext

\* The local variables of the sweep and of the asset.
LEMMA CourseTyped ==
  ASSUME course \in Courses, ProgressNext
  PROVE  course' \in Courses
<1>0. /\ course.at \in Nat /\ course.purged \in Nat /\ course.stopped \in BOOLEAN /\ course.chunks \in Nat
      /\ course.page \in Nat /\ course.blank \in Nat /\ course.item \in ItemKinds \cup {"none"}
  BY DEF Courses
<1> USE ProgressAssumption
<1>1. CASE OpenLog
  BY <1>1 DEF OpenLog, Moves, Quietly
<1>2. CASE ScanEnds
  BY <1>2 DEF ScanEnds, Moves, Quietly
<1>3. CASE RunFails
  BY <1>3 DEF RunFails, Fails, May
<1>4. CASE SweepBegins
  BY <1>4 DEF SweepBegins, Quietly
<1>5. CASE Examine
  <2>1. PICK n \in {course.purged, course.purged + 1} :
          course' = CourseOf(course.at + 1, n, course.stopped, course.chunks, course.page, course.blank, course.item)
    BY <1>5 DEF Examine, Courses, CourseOf
  <2>2. course.at + 1 \in Nat /\ n \in Nat
    BY <1>0
  <2> QED
    BY <1>0, <2>1, <2>2 DEF Courses, CourseOf
<1>6. CASE SweepEnds
  BY <1>6 DEF SweepEnds, Moves, Quietly
<1>7. CASE SeedStopped
  <2>1. course' = CourseOf(0, course.purged, Pressed, course.chunks, course.page, course.blank, course.item)
    BY <1>7 DEF SeedStopped, Courses, CourseOf
  <2> QED
    BY <1>0, <2>1 DEF Courses, CourseOf, Pressed
<1>8. CASE LoopStops
  BY <1>8 DEF LoopStops, Courses
<1>9. CASE AssetStarts
  <2>1. course' = CourseOf(course.at + 1, course.purged, course.stopped, 0, 0, 0, "none")
    BY <1>9 DEF AssetStarts, Courses, CourseOf
  <2> QED
    BY <1>0, <2>1 DEF Courses, CourseOf
<1>10. CASE AssetPasses
  <2>1. PICK k \in ItemKinds, n \in Nat :
          course' = CourseOf(course.at, course.purged, course.stopped, n, course.page, course.blank, k)
    BY <1>10 DEF AssetPasses, Item, ItemKinds, Courses, CourseOf
  <2> QED
    BY <1>0, <2>1 DEF Courses, CourseOf
<1>11. CASE CodeStored
  <2>1. PICK k \in ItemKinds, n \in Nat :
          course' = CourseOf(course.at, course.purged, course.stopped, n, course.page, course.blank, k)
    BY <1>11 DEF CodeStored, Item, ItemKinds, Courses, CourseOf
  <2> QED
    BY <1>0, <2>1 DEF Courses, CourseOf
<1>12. CASE AssetFails
  <2>1. PICK k \in ItemKinds, n \in Nat :
          course' = CourseOf(course.at, course.purged, course.stopped, n, course.page, course.blank, k)
    BY <1>12 DEF AssetFails, Item, ItemKinds, Courses, CourseOf
  <2> QED
    BY <1>0, <2>1 DEF Courses, CourseOf
<1>13. CASE Vision
  BY <1>13 DEF Vision, Moves, Quietly
<1>14. CASE PageRead
  <2>1. PICK n \in {course.blank, course.blank + 1} :
          course' = CourseOf(course.at, course.purged, course.stopped, course.chunks, course.page + 1, n, course.item)
    BY <1>14 DEF PageRead, Courses, CourseOf
  <2>2. course.page + 1 \in Nat /\ n \in Nat
    BY <1>0
  <2> QED
    BY <1>0, <2>1, <2>2 DEF Courses, CourseOf
<1>15. CASE PagesCancelled
  <2>1. PICK k \in ItemKinds, n \in Nat :
          course' = CourseOf(course.at, course.purged, course.stopped, n, course.page, course.blank, k)
    BY <1>15 DEF PagesCancelled, Item, ItemKinds, Courses, CourseOf
  <2> QED
    BY <1>0, <2>1 DEF Courses, CourseOf
<1>16. CASE PagesEnd
  BY <1>16 DEF PagesEnd, Moves, Quietly
<1>17. CASE Chunks
  BY <1>17 DEF Chunks, Courses
<1>18. CASE Stores
  BY <1>18 DEF Stores, Moves, Quietly
<1>19. CASE Embeds
  <2>1. PICK k \in ItemKinds, n \in Nat :
          course' = CourseOf(course.at, course.purged, course.stopped, n, course.page, course.blank, k)
    BY <1>19 DEF Embeds, Item, ItemKinds, Courses, CourseOf
  <2> QED
    BY <1>0, <2>1 DEF Courses, CourseOf
<1>20. CASE AssetEnds
  BY <1>20 DEF AssetEnds, Moves, Quietly
<1>21. CASE CreateJob
  BY <1>21 DEF CreateJob, Quietly, Fails, May
<1>22. CASE UpdateJob
  BY <1>22 DEF UpdateJob, Moves, Quietly, Fails, May
<1>23. CASE FinishJob
  BY <1>23 DEF FinishJob, Moves, Quietly, Fails, May
<1>24. CASE RecordRun
  BY <1>24 DEF RecordRun, Moves, Quietly, Fails, May
<1>25. CASE TellEnd
  BY <1>25 DEF TellEnd, Moves, Quietly
<1>26. CASE Summarize
  BY <1>26 DEF Summarize, Moves, Quietly
<1>27. CASE Press
  <2>1. course' = course \/ course' = FreshCourse
    BY <1>27 DEF Press, Interrupted, Quit
  <2>2. FreshCourse \in Courses
    BY DEF FreshCourse, Courses
  <2> QED
    BY <2>1, <2>2
<1>28. CASE Handle
  BY <1>28 DEF Handle, Listening
<1>29. CASE StdoutCloses
  BY <1>29 DEF StdoutCloses, Listening
<1>30. CASE Join
  BY <1>30 DEF Join
<1> QED
  BY <1>1, <1>2, <1>3, <1>4, <1>5, <1>6, <1>7, <1>8, <1>9, <1>10, <1>11, <1>12, <1>13, <1>14, <1>15,
     <1>16, <1>17, <1>18, <1>19, <1>20, <1>21, <1>22, <1>23, <1>24, <1>25, <1>26, <1>27, <1>28, <1>29, <1>30 DEF ProgressNext

\* The items and the counters.
LEMMA TotalsTyped ==
  ASSUME course \in Courses, totals \in Totals, (stage = "tally" => course.item \in ItemKinds), ProgressNext
  PROVE  totals' \in Totals
<1>0. /\ totals.items \in Seq(ItemKinds) /\ totals.count \in [ItemKinds -> Nat] /\ totals.chunks \in Nat
      /\ totals.embedded \in Nat /\ totals.pages \in Nat /\ totals.unread \in Nat /\ totals.samples \in Seq(Nat)
      /\ totals.blank \in Nat /\ course.blank \in Nat /\ course.chunks \in Nat
  BY DEF Totals, Courses
<1> USE ProgressAssumption
<1>1. CASE OpenLog
  BY <1>1 DEF OpenLog, Moves, Quietly
<1>2. CASE ScanEnds
  BY <1>2 DEF ScanEnds, Moves, Quietly
<1>3. CASE RunFails
  BY <1>3 DEF RunFails, Fails
<1>4. CASE SweepBegins
  BY <1>4 DEF SweepBegins, Quietly
<1>5. CASE Examine
  BY <1>5 DEF Examine, Fails, Quietly
<1>6. CASE SweepEnds
  BY <1>6 DEF SweepEnds, Moves, Quietly
<1>7. CASE SeedStopped
  BY <1>7 DEF SeedStopped, Moves, Quietly
<1>8. CASE LoopStops
  BY <1>8 DEF LoopStops, Moves, Quietly
<1>9. CASE AssetStarts
  BY <1>9 DEF AssetStarts, Quietly
<1>10. CASE AssetPasses
  BY <1>10 DEF AssetPasses, Quietly, Item
<1>11. CASE CodeStored
  BY <1>11 DEF CodeStored, Quietly, Item
<1>12. CASE AssetFails
  BY <1>12 DEF AssetFails, Fails, Item
<1>13. CASE Vision
  BY <1>13 DEF Vision, Moves, Quietly
<1>14. CASE PageRead
  <2>0. PICK fate \in {"read", "unread", "blank"}, ms \in Durations :
          totals' = [totals EXCEPT !.pages = @ + 1, !.unread = IF fate = "read" THEN @ ELSE @ + 1,
                                   !.samples = IF fate = "read" THEN Append(@, ms) ELSE @]
    BY <1>14 DEF PageRead
  <2> DEFINE n == IF fate = "read" THEN totals.unread ELSE totals.unread + 1
             s == IF fate = "read" THEN Append(totals.samples, ms) ELSE totals.samples
  <2>1. totals' = TotalsOf(totals.items, totals.count, totals.chunks, totals.embedded, totals.pages + 1, n, s,
                           totals.blank)
    BY <2>0 DEF Totals, TotalsOf
  <2>2. totals.pages + 1 \in Nat /\ n \in Nat /\ s \in Seq(Nat)
    BY <1>0
  <2> HIDE DEF n, s
  <2> QED
    BY <1>0, <2>1, <2>2 DEF Totals, TotalsOf
<1>15. CASE PagesCancelled
  BY <1>15 DEF PagesCancelled, Quietly, Item
<1>16. CASE PagesEnd
  <2>1. totals' = TotalsOf(totals.items, totals.count, totals.chunks, totals.embedded, totals.pages, totals.unread,
                           totals.samples, totals.blank + course.blank)
    BY <1>16 DEF PagesEnd, Totals, TotalsOf
  <2>2. totals.blank + course.blank \in Nat
    BY <1>0
  <2> QED
    BY <1>0, <2>1, <2>2 DEF Totals, TotalsOf
<1>17. CASE Chunks
  BY <1>17 DEF Chunks, Moves, Quietly
<1>18. CASE Stores
  BY <1>18 DEF Stores, Moves, Quietly
<1>19. CASE Embeds
  BY <1>19 DEF Embeds, Quietly, Item
<1>20. CASE AssetEnds
  <2> DEFINE n == IF course.item \in {"new", "updated"} THEN course.chunks ELSE 0
             c == [totals.count EXCEPT ![course.item] = @ + 1]
  <2>1. n \in Nat /\ course.item \in ItemKinds
    BY <1>0, <1>20 DEF AssetEnds, Moves
  <2>2. c \in [ItemKinds -> Nat] /\ Append(totals.items, course.item) \in Seq(ItemKinds)
    BY <1>0, <2>1
  <2>3. PICK m \in {totals.embedded, totals.embedded + n} :
          totals' = TotalsOf(Append(totals.items, course.item), c, totals.chunks + n, m, totals.pages, totals.unread,
                             totals.samples, totals.blank)
    BY <1>20 DEF AssetEnds, Tallied, Totals, TotalsOf
  <2> HIDE DEF n, c
  <2>4. m \in Nat /\ totals.chunks + n \in Nat
    BY <1>0, <2>1
  <2> QED
    BY <1>0, <2>2, <2>3, <2>4 DEF Totals, TotalsOf
<1>21. CASE CreateJob
  BY <1>21 DEF CreateJob, Quietly, Fails
<1>22. CASE UpdateJob
  BY <1>22 DEF UpdateJob, Moves, Quietly, Fails
<1>23. CASE FinishJob
  BY <1>23 DEF FinishJob, Moves, Quietly, Fails
<1>24. CASE RecordRun
  BY <1>24 DEF RecordRun, Moves, Quietly, Fails
<1>25. CASE TellEnd
  BY <1>25 DEF TellEnd, Moves, Quietly
<1>26. CASE Summarize
  BY <1>26 DEF Summarize, Moves, Quietly
<1>27. CASE Press
  <2>1. totals' = totals \/ totals' = FreshTotals
    BY <1>27 DEF Press, Interrupted, Quit
  <2>2. FreshTotals \in Totals
    BY DEF FreshTotals, Totals
  <2> QED
    BY <2>1, <2>2
<1>28. CASE Handle
  BY <1>28 DEF Handle, Listening
<1>29. CASE StdoutCloses
  BY <1>29 DEF StdoutCloses, Listening
<1>30. CASE Join
  BY <1>30 DEF Join
<1> QED
  BY <1>1, <1>2, <1>3, <1>4, <1>5, <1>6, <1>7, <1>8, <1>9, <1>10, <1>11, <1>12, <1>13, <1>14, <1>15,
     <1>16, <1>17, <1>18, <1>19, <1>20, <1>21, <1>22, <1>23, <1>24, <1>25, <1>26, <1>27, <1>28, <1>29, <1>30 DEF ProgressNext

-----------------------------------------------------------------------------
(* Progress: where the run is *)

\* Where the run is fits how far it came.
LEMMA LocatedStep ==
  ASSUME ProgressTyped, Located, ProgressNext
  PROVE  Located'
<1>0. /\ course.at \in Nat /\ course.purged \in Nat /\ course.stopped \in BOOLEAN /\ course.chunks \in Nat
      /\ course \in Courses /\ course' \in Courses /\ totals \in Totals
      /\ totals.items \in Seq(ItemKinds) /\ presses \in 0 .. 2 /\ stage \in Stages
      /\ begun.stored \in Nat /\ Len(begun.assets) \in Nat /\ begun' = begun
  BY CourseTyped, BegunIs, StagesTyped DEF ProgressTyped, Courses, Totals
<1> USE <1>0 DEF Located, Stages, NotBegun, LoopStages, AssetStages, AfterLoop, Ends, Pressed
<1>1. CASE OpenLog
  BY <1>1 DEF OpenLog, Moves, Quietly
<1>2. CASE ScanEnds
  BY <1>2 DEF ScanEnds, Moves, Quietly
<1>3. CASE RunFails
  BY <1>3 DEF RunFails, Fails
<1>4. CASE SweepBegins
  BY <1>4 DEF SweepBegins, Quietly, FreshCourse
<1>5. CASE Examine
  BY <1>5 DEF Examine, Fails, Quietly, Courses
<1>6. CASE SweepEnds
  BY <1>6 DEF SweepEnds, Moves, Quietly
<1>7. CASE SeedStopped
  BY <1>7 DEF SeedStopped, Moves, Quietly, Courses
<1>8. CASE LoopStops
  BY <1>8 DEF LoopStops, Moves, Quietly, Courses
<1>9. CASE AssetStarts
  BY <1>9 DEF AssetStarts, Quietly, Courses
<1>10. CASE AssetPasses
  BY <1>10 DEF AssetPasses, Quietly, Item, Courses, ItemKinds
<1>11. CASE CodeStored
  BY <1>11 DEF CodeStored, Quietly, Item, Courses, ItemKinds
<1>12. CASE AssetFails
  BY <1>12 DEF AssetFails, Fails, Item, Courses, ItemKinds
<1>13. CASE Vision
  BY <1>13 DEF Vision, Moves, Quietly
<1>14. CASE PageRead
  BY <1>14 DEF PageRead, Quietly, Totals, Courses
<1>15. CASE PagesCancelled
  BY <1>15 DEF PagesCancelled, Quietly, Item, Courses, ItemKinds
<1>16. CASE PagesEnd
  BY <1>16 DEF PagesEnd, Moves, Quietly, Totals
<1>17. CASE Chunks
  BY <1>17 DEF Chunks, Moves, Quietly, Courses
<1>18. CASE Stores
  BY <1>18 DEF Stores, Moves, Quietly
<1>19. CASE Embeds
  BY <1>19 DEF Embeds, Quietly, Item, Courses, ItemKinds
<1>20. CASE AssetEnds
  BY <1>20 DEF AssetEnds, Moves, Quietly, Tallied
<1>21. CASE CreateJob
  BY <1>21 DEF CreateJob, Quietly, Fails
<1>22. CASE UpdateJob
  BY <1>22 DEF UpdateJob, Moves, Quietly, Fails
<1>23. CASE FinishJob
  BY <1>23 DEF FinishJob, Moves, Quietly, Fails
<1>24. CASE RecordRun
  BY <1>24 DEF RecordRun, Moves, Quietly, Fails
<1>25. CASE TellEnd
  BY <1>25 DEF TellEnd, Moves, Quietly
<1>26. CASE Summarize
  BY <1>26 DEF Summarize, Moves, Quietly
<1>27. CASE Press
  BY <1>27 DEF Press, Interrupted, Quit, FreshCourse, FreshTotals
<1>28. CASE Handle
  BY <1>28 DEF Handle, Listening
<1>29. CASE StdoutCloses
  BY <1>29 DEF StdoutCloses, Listening
<1>30. CASE Join
  BY <1>30 DEF Join
<1> QED
  BY <1>1, <1>2, <1>3, <1>4, <1>5, <1>6, <1>7, <1>8, <1>9, <1>10, <1>11, <1>12, <1>13, <1>14, <1>15,
     <1>16, <1>17, <1>18, <1>19, <1>20, <1>21, <1>22, <1>23, <1>24, <1>25, <1>26, <1>27, <1>28, <1>29, <1>30 DEF ProgressNext

-----------------------------------------------------------------------------
(* Progress: what a step tells *)

Tells(e) == told' = Append(told, e) /\ e \in Events
TellsTwo(d, e) == told' = Append(Append(told, d), e) /\ d \in Events /\ e \in Events

EndEvent == Event(IF course.stopped THEN "aborted" ELSE "completed", Len(begun.assets), Counts)

\* What each action tells.
LEMMA ToldBy ==
  ASSUME ProgressTyped, Located
  PROVE  /\ OpenLog => Tells(Event("scan_started", 0, 0))
         /\ ScanEnds => Tells(Event("scan_completed", Len(begun.assets), 0))
         /\ SweepBegins => \/ begun.stored = 0 /\ stage' = "seed" /\ told' = told
                           \/ stage' = "sweep" /\ Tells(Event("sweep_started", begun.stored, 0))
         /\ Examine => \/ course'.purged = course.purged + 1 /\ Tells(Event("sweep_progress", course.at + 1, "purged"))
                       \/ course'.purged = course.purged /\ Tells(Event("sweep_progress", course.at + 1, "kept"))
         /\ SweepEnds => Tells(Event("sweep_completed", course.at, course.purged))
         /\ AssetStarts => Tells(Event("asset_started", course.at + 1, 0))
         /\ Vision => \/ told' = told
                      \/ Tells(Event("asset_phase", course.at, "ocr"))
                      \/ Tells(Event("asset_phase", course.at, "caption"))
                      \/ TellsTwo(Event("asset_phase", course.at, "ocr"), Event("asset_phase", course.at, "caption"))
         /\ PageRead => \E fate \in {"read", "unread", "blank"} :
              TellsTwo(Event("ocr_started", course.page + 1, 0), Event("ocr_finished", course.page + 1, fate))
         /\ Chunks => \E n \in ChunkCounts :
              course' = [course EXCEPT !.chunks = n] /\ Tells(Event("asset_chunked", course.at, n))
         /\ Stores => Tells(Event("asset_phase", course.at, "embed"))
         /\ Embeds => \E ms \in Durations : ms \in Nat /\ Tells(Event("asset_timings", course.at, ms))
         /\ AssetEnds => Tells(Event("asset_finished", course.at, <<course.item, course.chunks>>))
         /\ TellEnd => Tells(EndEvent)
<1>0. /\ course.at \in Nat /\ course.purged \in Nat /\ course.chunks \in Nat /\ course.page \in Nat
      /\ begun.stored \in Nat /\ Len(begun.assets) \in Nat /\ told \in Seq(Events)
  BY BegunIs DEF ProgressTyped, Courses
<1>1. ASSUME NEW k \in EventKinds, NEW i \in Nat, NEW d \in Details
      PROVE  Event(k, i, d) \in Events
  BY DEF Event, Events
<1>2. \A d \in Nat : d \in Details
  BY DEF Details
<1>3. /\ "ocr" \in Details /\ "caption" \in Details /\ "embed" \in Details /\ "purged" \in Details
      /\ "kept" \in Details /\ "read" \in Details /\ "unread" \in Details /\ "blank" \in Details
  BY DEF Details, Words
<1>4. \A k \in {"scan_started", "scan_completed", "sweep_started", "sweep_progress", "sweep_completed",
               "asset_started", "asset_finished", "asset_phase", "asset_chunked", "asset_timings", "ocr_started",
               "ocr_finished", "completed", "aborted"} : k \in EventKinds
  BY DEF EventKinds, SweepKinds, WithinKinds, EndKinds
<1>5. \A e : e \in Events => told \o <<e>> = Append(told, e)
  BY <1>0, OneEventMore
<1>6. OpenLog => Tells(Event("scan_started", 0, 0))
  <2>1. Event("scan_started", 0, 0) \in Events
    BY <1>1, <1>2, <1>4
  <2> QED
    BY <1>5, <2>1 DEF OpenLog, Announce, Tells
<1>7. ScanEnds => Tells(Event("scan_completed", Len(begun.assets), 0))
  <2>1. Event("scan_completed", Len(begun.assets), 0) \in Events
    BY <1>0, <1>1, <1>2, <1>4
  <2> QED
    BY <1>5, <2>1 DEF ScanEnds, Announce, Tells
<1>8. SweepBegins => \/ begun.stored = 0 /\ stage' = "seed" /\ told' = told
                     \/ stage' = "sweep" /\ Tells(Event("sweep_started", begun.stored, 0))
  <2>1. Event("sweep_started", begun.stored, 0) \in Events
    BY <1>0, <1>1, <1>2, <1>4
  <2> QED
    BY <1>5, <2>1 DEF SweepBegins, Announce, Tells
<1>9. Examine => \/ course'.purged = course.purged + 1 /\ Tells(Event("sweep_progress", course.at + 1, "purged"))
                 \/ course'.purged = course.purged /\ Tells(Event("sweep_progress", course.at + 1, "kept"))
  <2>1. /\ Event("sweep_progress", course.at + 1, "purged") \in Events
        /\ Event("sweep_progress", course.at + 1, "kept") \in Events
    BY <1>0, <1>1, <1>3, <1>4
  <2> SUFFICES ASSUME Examine
               PROVE  \/ course'.purged = course.purged + 1 /\ Tells(Event("sweep_progress", course.at + 1, "purged"))
                      \/ course'.purged = course.purged /\ Tells(Event("sweep_progress", course.at + 1, "kept"))
    OBVIOUS
  <2>2. PICK fate \in {"there", "purge", "purge_failed"} :
          /\ course' = [course EXCEPT !.at = @ + 1, !.purged = IF fate = "purge" THEN @ + 1 ELSE @]
          /\ told' = told \o <<Event("sweep_progress", course.at + 1, IF fate = "purge" THEN "purged" ELSE "kept")>>
    BY DEF Examine, Announce
  <2>3. course'.purged = IF fate = "purge" THEN course.purged + 1 ELSE course.purged
    BY <2>2 DEF ProgressTyped, Courses
  <2>4. CASE fate = "purge"
    BY <1>5, <2>1, <2>2, <2>3, <2>4 DEF Tells
  <2>5. CASE fate # "purge"
    BY <1>5, <2>1, <2>2, <2>3, <2>5 DEF Tells
  <2> QED
    BY <2>4, <2>5
<1>10. SweepEnds => Tells(Event("sweep_completed", course.at, course.purged))
  <2>1. Event("sweep_completed", course.at, course.purged) \in Events
    BY <1>0, <1>1, <1>2, <1>4
  <2> QED
    BY <1>5, <2>1 DEF SweepEnds, Announce, Tells
<1>11. AssetStarts => Tells(Event("asset_started", course.at + 1, 0))
  <2>1. Event("asset_started", course.at + 1, 0) \in Events
    BY <1>0, <1>1, <1>2, <1>4
  <2> QED
    BY <1>5, <2>1 DEF AssetStarts, Announce, Tells
<1>12. Vision => \/ told' = told
                 \/ Tells(Event("asset_phase", course.at, "ocr"))
                 \/ Tells(Event("asset_phase", course.at, "caption"))
                 \/ TellsTwo(Event("asset_phase", course.at, "ocr"), Event("asset_phase", course.at, "caption"))
  <2> DEFINE e(p) == Event("asset_phase", course.at, p)
             told_(ps) == [p \in DOMAIN ps |-> e(ps[p])]
  <2>1. e("ocr") \in Events /\ e("caption") \in Events
    BY <1>0, <1>1, <1>3, <1>4
  <2>2. Vision => \E ps \in {<< >>, <<"ocr">>, <<"caption">>, <<"ocr", "caption">>} : told' = told \o told_(ps)
    BY DEF Vision, Announce
  <2>3. /\ told_(<< >>) = << >> /\ told_(<<"ocr">>) = <<e("ocr")>> /\ told_(<<"caption">>) = <<e("caption")>>
        /\ told_(<<"ocr", "caption">>) = <<e("ocr"), e("caption")>>
    <3> HIDE DEF e
    <3> QED
      OBVIOUS
  <2> HIDE DEF e, told_
  <2>4. told \o << >> = told /\ told \o <<e("ocr"), e("caption")>> = Append(Append(told, e("ocr")), e("caption"))
    BY <1>0, <2>1
  <2> QED
    BY <1>5, <2>1, <2>2, <2>3, <2>4 DEF Tells, TellsTwo, e
<1>13. PageRead => \E fate \in {"read", "unread", "blank"} :
         TellsTwo(Event("ocr_started", course.page + 1, 0), Event("ocr_finished", course.page + 1, fate))
  <2> SUFFICES ASSUME NEW fate \in {"read", "unread", "blank"},
                      told' = told \o <<Event("ocr_started", course.page + 1, 0),
                                        Event("ocr_finished", course.page + 1, fate)>>
               PROVE  TellsTwo(Event("ocr_started", course.page + 1, 0), Event("ocr_finished", course.page + 1, fate))
    BY DEF PageRead, Announce
  <2> DEFINE d == Event("ocr_started", course.page + 1, 0)
             e == Event("ocr_finished", course.page + 1, fate)
  <2>1. d \in Events /\ e \in Events
    BY <1>0, <1>1, <1>2, <1>3, <1>4
  <2> HIDE DEF d, e
  <2>2. told \o <<d, e>> = Append(Append(told, d), e)
    BY <1>0, <2>1
  <2> QED
    BY <2>1, <2>2 DEF TellsTwo, d, e
<1>14. Chunks => \E n \in ChunkCounts :
         course' = [course EXCEPT !.chunks = n] /\ Tells(Event("asset_chunked", course.at, n))
  <2>1. \A n \in ChunkCounts : Event("asset_chunked", course.at, n) \in Events
    BY <1>0, <1>1, <1>2, <1>4, ProgressAssumption
  <2> QED
    BY <1>5, <2>1 DEF Chunks, Announce, Tells
<1>15. Stores => Tells(Event("asset_phase", course.at, "embed"))
  <2>1. Event("asset_phase", course.at, "embed") \in Events
    BY <1>0, <1>1, <1>3, <1>4
  <2> QED
    BY <1>5, <2>1 DEF Stores, Announce, Tells
<1>16. Embeds => \E ms \in Durations : ms \in Nat /\ Tells(Event("asset_timings", course.at, ms))
  <2>1. \A ms \in Durations : ms \in Nat /\ Event("asset_timings", course.at, ms) \in Events
    BY <1>0, <1>1, <1>2, <1>4, ProgressAssumption
  <2> QED
    BY <1>5, <2>1 DEF Embeds, Announce, Tells
<1>17. AssetEnds => Tells(Event("asset_finished", course.at, <<course.item, course.chunks>>))
  <2>1. ASSUME AssetEnds PROVE Event("asset_finished", course.at, <<course.item, course.chunks>>) \in Events
    <3>1. course.item \in ItemKinds
      BY <2>1 DEF AssetEnds, Moves, Located
    <3>2. <<course.item, course.chunks>> \in Details
      BY <1>0, <3>1 DEF Details
    <3> QED
      BY <1>0, <1>1, <1>4, <3>2
  <2> QED
    BY <1>5, <2>1 DEF AssetEnds, Announce, Tells
<1>18. TellEnd => Tells(EndEvent)
  <2>1. Counts \in Details
    <3>1. /\ totals.count \in [ItemKinds -> Nat] /\ totals.chunks \in Nat /\ totals.embedded \in Nat
      BY DEF ProgressTyped, Totals
    <3>2. Counts \in CountsRecords
      BY <1>0, <3>1 DEF Counts, CountsRecords
    <3> QED
      BY <3>2 DEF Details
  <2>2. EndEvent \in Events
    BY <1>0, <1>1, <1>4, <2>1 DEF EndEvent
  <2> QED
    BY <1>5, <2>2 DEF TellEnd, Announce, Tells, EndEvent
<1> QED
  BY <1>6, <1>7, <1>8, <1>9, <1>10, <1>11, <1>12, <1>13, <1>14, <1>15, <1>16, <1>17, <1>18

ToldInv == ToldSoFar /\ ToldOfAssets /\ ToldOfSweep /\ ToldOfEnd

\* What is told but by the actions of ToldBy, and what the display has of it.
LEMMA ToldElse ==
  ASSUME ProgressTyped, ProgressNext
  PROVE  \/ shown' = shown /\ (OpenLog \/ ScanEnds \/ SweepBegins \/ Examine \/ SweepEnds \/ AssetStarts \/ Vision
                               \/ PageRead \/ Chunks \/ Stores \/ Embeds \/ AssetEnds \/ TellEnd)
         \/ shown' \in {shown, shown + 1} /\ shown' <= Len(told) /\ told' = told
         \/ Quit
<1>0. shown \in 0 .. Len(told) /\ Len(told) \in Nat
  BY OneEventMore DEF ProgressTyped
<1> USE <1>0 DEF Moves, Quietly, Fails
<1>1. CASE RunFails \/ SeedStopped \/ LoopStops \/ AssetPasses \/ CodeStored \/ AssetFails \/ PagesCancelled \/ PagesEnd
           \/ CreateJob \/ UpdateJob \/ FinishJob \/ RecordRun \/ Summarize
  BY <1>1 DEF RunFails, SeedStopped, LoopStops, AssetPasses, CodeStored, AssetFails, PagesCancelled, PagesEnd, CreateJob,
     UpdateJob, FinishJob, RecordRun, Summarize
<1>2. CASE Press
  BY <1>2 DEF Press, Interrupted
<1>3. CASE Handle
  BY <1>3 DEF Handle, Listening
<1>4. CASE StdoutCloses \/ Join
  BY <1>4 DEF StdoutCloses, Join
<1>5. CASE OpenLog \/ ScanEnds \/ SweepBegins \/ SweepEnds \/ AssetStarts \/ Vision
           \/ PageRead \/ Chunks \/ Stores \/ Embeds \/ AssetEnds \/ TellEnd
  BY <1>5 DEF OpenLog, ScanEnds, SweepBegins, SweepEnds, AssetStarts, Vision, PageRead, Chunks, Stores,
     Embeds, AssetEnds, TellEnd
<1>6. CASE Examine
  BY <1>6 DEF Examine
<1> QED
  BY <1>1, <1>2, <1>3, <1>4, <1>5, <1>6 DEF ProgressNext

\* The events of each stage.
InTurn(e) ==
  \/ stage = "start" /\ e.kind = "scan_started"
  \/ stage = "scan" /\ e.kind = "scan_completed" /\ e.idx = Len(begun.assets)
  \/ stage = "setup" /\ e.kind = "sweep_started" /\ e.idx = begun.stored
  \/ stage = "sweep" /\ e.kind = "sweep_progress" /\ e.idx <= begun.stored
  \/ stage = "sweep" /\ e.kind = "sweep_completed"
  \/ stage = "next" /\ e.kind = "asset_started" /\ e.idx = course.at + 1 /\ course.at < Len(begun.assets)
  \/ stage \in {"vision", "store"} /\ e.kind = "asset_phase" /\ e.idx = course.at
  \/ stage = "pages" /\ e.kind \in {"ocr_started", "ocr_finished"}
  \/ stage = "chunk" /\ e.kind = "asset_chunked" /\ e.idx = course.at
  \/ stage = "embed" /\ e.kind = "asset_timings" /\ e.idx = course.at /\ e.detail \in Nat
  \/ stage = "tally" /\ e.kind = "asset_finished" /\ e.idx = course.at /\ e.detail \in ItemKinds \X Nat
  \/ stage = "terminal" /\ e.kind \in EndKinds

\* Where an event is told, it may come.
LEMMA InTurnFollows ==
  ASSUME ProgressTyped, Located, ToldInv, NEW e \in Events, InTurn(e)
  PROVE  Follows(begun, told, Len(told), e)
<1> DEFINE N == Len(told)
<1>1. told \in Seq(Events) /\ N \in Nat /\ (told = << >> <=> N = 0)
      /\ course.at \in Nat /\ begun.stored \in Nat /\ Len(begun.assets) \in Nat /\ course.chunks \in Nat
  BY BegunIs DEF ProgressTyped, Courses
<1>2. \A kinds : SentUpTo(told, kinds, N) = SentIn(told, kinds)
  <2>1. N \in 0 .. N
    BY <1>1
  <2> QED
    BY <1>1, <2>1, SentUpToKept
<1>3. /\ Flying(told, N) = IF stage \in AssetStages THEN course.at ELSE 0
      /\ Cardinality(SentUpTo(told, {"asset_started"}, N)) = IF stage \in LoopStages \cup AfterLoop THEN course.at ELSE 0
      /\ SentUpTo(told, EndKinds, N) = IF stage \in Ends THEN {N} ELSE {}
      /\ stage \in LoopStages =>
           \A i \in SentUpTo(told, {"asset_timings"}, N) :
             told[i].idx <= course.at /\ (told[i].idx = course.at => stage \in {"tally", "next"})
  BY <1>2 DEF ToldInv, ToldOfAssets, ToldOfEnd
<1>4. /\ stage = "start" => N = 0
      /\ stage = "scan" => N = 1
      /\ stage = "setup" => N = 2
      /\ stage \notin NotBegun => N >= 2
      /\ (stage = "sweep") = (N # 0 /\ told[N].kind \in OpenSweep)
      /\ stage = "sweep" => \A j \in 3 .. N : told[j].kind \in OpenSweep
      /\ stage \in AssetStages => course.at > 0
  BY <1>1 DEF ToldInv, ToldSoFar, Located
<1> USE DEF AssetStages, LoopStages, AfterLoop, Ends, NotBegun
<1>5. FollowsScan(begun, N, e)
  <2>1. stage \in {"start", "scan", "setup"} \/ stage \notin NotBegun
    BY DEF InTurn
  <2>2. (e.kind = "scan_started") = (stage = "start")
    BY DEF InTurn, EndKinds
  <2>3. (e.kind = "scan_completed") = (stage = "scan")
    BY DEF InTurn, EndKinds
  <2>4. e.kind = "scan_completed" => e.idx = Len(begun.assets)
    BY DEF InTurn, EndKinds
  <2>5. (stage = "start") = (N = 0) /\ (stage = "scan") = (N = 1)
    <3>1. CASE stage = "start"
      BY <1>4, <3>1
    <3>2. CASE stage = "scan"
      BY <1>4, <3>2
    <3>3. CASE stage \notin {"start", "scan"}
      <4>1. (stage = "setup" => N = 2) /\ (stage \notin NotBegun => N >= 2)
        BY <1>4
      <4>2. stage = "setup" \/ stage \notin NotBegun
        BY <2>1, <3>3
      <4>3. N # 0 /\ N # 1
        <5> HIDE DEF N, NotBegun, AssetStages, LoopStages, AfterLoop, Ends
        <5>1. CASE stage = "setup"
          BY <4>1, <5>1
        <5>2. CASE stage \notin NotBegun
          <6>1. N >= 2
            BY <4>1, <5>2
          <6> QED
            BY <1>1, <6>1
        <5> QED
          BY <4>2, <5>1, <5>2
      <4> QED
        BY <3>3, <4>3
    <3> QED
      BY <3>1, <3>2, <3>3
  <2> QED
    BY <2>2, <2>3, <2>4, <2>5 DEF FollowsScan
<1>6. FollowsSweep(begun, told, N, e)
  <2>1. (e.kind \in {"sweep_progress", "sweep_completed"}) = (stage = "sweep")
    BY DEF InTurn, EndKinds
  <2>2. e.kind = "sweep_started" => e.idx = begun.stored
    BY DEF InTurn, EndKinds
  <2>3. e.kind = "sweep_progress" => e.idx <= begun.stored
    BY DEF InTurn, EndKinds
  <2>4. e.kind \in SweepKinds => stage = "setup" \/ stage = "sweep"
    BY DEF InTurn, EndKinds, SweepKinds
  <2>5. e.kind \in SweepKinds => \A j \in 3 .. N : told[j].kind \in OpenSweep
    BY <1>4, <2>4
  <2> QED
    BY <1>1, <1>4, <2>1, <2>2, <2>3, <2>5 DEF FollowsSweep
<1>7. FollowsAsset(begun, told, N, e)
  <2>1. e.kind = "asset_started" => stage = "next" /\ e.idx = course.at + 1 /\ course.at < Len(begun.assets)
    BY DEF InTurn, EndKinds
  <2>2. e.kind \in WithinKinds => stage \in AssetStages
    BY DEF InTurn, EndKinds, WithinKinds
  <2>3. e.kind \in {"asset_phase", "asset_chunked", "asset_timings", "asset_finished"} =>
          stage \in AssetStages /\ e.idx = course.at
    BY DEF InTurn, EndKinds
  <2>4. e.kind = "asset_timings" => stage = "embed" /\ e.detail \in Nat
    BY DEF InTurn, EndKinds
  <2>5. e.kind = "asset_finished" => e.detail \in ItemKinds \X Nat
    BY DEF InTurn, EndKinds
  <2>6. e.kind = "asset_timings" => \A j \in SentUpTo(told, {"asset_timings"}, N) : told[j].idx # e.idx
    BY <1>3, <2>3, <2>4
  <2>7. e.kind = "asset_started" =>
          /\ Flying(told, N) = 0 /\ e.idx \in 1 .. Len(begun.assets)
          /\ e.idx = Cardinality(SentUpTo(told, {"asset_started"}, N)) + 1
    BY <1>1, <1>3, <2>1
  <2>8. stage \in AssetStages => Flying(told, N) = course.at /\ course.at # 0
    BY <1>1, <1>3, <1>4
  <2> QED
    BY <2>2, <2>3, <2>4, <2>5, <2>6, <2>7, <2>8 DEF FollowsAsset
<1>8. FollowsEnd(told, N, e)
  <2>1. stage \notin Ends /\ (e.kind \in EndKinds => stage \notin AssetStages)
    BY DEF InTurn, EndKinds
  <2> QED
    BY <1>3, <2>1 DEF FollowsEnd
<1> QED
  BY <1>5, <1>6, <1>7, <1>8 DEF Follows

\* Every step tells nothing, what may come next, or loses all of it.
LEMMA StepTells ==
  ASSUME ProgressTyped, Located, ProgressNext
  PROVE  \/ shown' \in {shown, shown + 1} /\ shown' <= Len(told) /\ told' = told
         \/ Quit
         \/ shown' = shown /\ \E e : Tells(e) /\ InTurn(e)
         \/ shown' = shown /\ stage \in {"pages", "vision"} /\ \E d, e :
              /\ TellsTwo(d, e) /\ InTurn(d) /\ InTurn(e)
              /\ {d.kind, e.kind} \subseteq {"ocr_started", "ocr_finished", "asset_phase"}
<1>0. /\ course.at \in Nat /\ course.chunks \in Nat /\ shown \in 0 .. Len(told) /\ Len(told) \in Nat
      /\ begun.stored \in Nat /\ Len(begun.assets) \in Nat
  BY OneEventMore, BegunIs DEF ProgressTyped, Courses
<1> DEFINE One == \E e : Tells(e) /\ InTurn(e)
<1>1. OpenLog => One
  <2> SUFFICES ASSUME OpenLog PROVE InTurn(Event("scan_started", 0, 0))
    BY ToldBy
  <2> QED
    BY DEF OpenLog, Moves, InTurn, Event
<1>2. ScanEnds => One
  <2> SUFFICES ASSUME ScanEnds PROVE InTurn(Event("scan_completed", Len(begun.assets), 0))
    BY ToldBy
  <2> QED
    BY DEF ScanEnds, Moves, InTurn, Event
<1>3. SweepBegins => One \/ told' = told
  <2>1. SweepBegins => InTurn(Event("sweep_started", begun.stored, 0))
    BY DEF SweepBegins, InTurn, Event
  <2> QED
    BY <2>1, ToldBy
<1>4. Examine => One
  <2>1. \A d : Examine => InTurn(Event("sweep_progress", course.at + 1, d))
    BY <1>0 DEF Examine, InTurn, Event
  <2> QED
    BY <2>1, ToldBy
<1>5. SweepEnds => One
  <2>1. \A i, d : SweepEnds => InTurn(Event("sweep_completed", i, d))
    BY DEF SweepEnds, Moves, InTurn, Event
  <2> QED
    BY <2>1, ToldBy
<1>6. AssetStarts => One
  <2>1. AssetStarts => InTurn(Event("asset_started", course.at + 1, 0))
    BY DEF AssetStarts, InTurn, Event
  <2> QED
    BY <2>1, ToldBy
<1>7. \A d : Vision \/ Stores => InTurn(Event("asset_phase", course.at, d))
  BY DEF Vision, Stores, Moves, InTurn, Event
<1>8. Stores => One
  BY <1>7, ToldBy
<1>9. Chunks => One
  <2>1. \A n : Chunks => InTurn(Event("asset_chunked", course.at, n))
    BY DEF Chunks, Moves, InTurn, Event
  <2> QED
    BY <2>1, ToldBy
<1>10. Embeds => One
  <2>1. \A ms \in Nat : Embeds => InTurn(Event("asset_timings", course.at, ms))
    BY DEF Embeds, InTurn, Event
  <2> QED
    BY <2>1, ToldBy
<1>11. AssetEnds => One
  <2>1. AssetEnds => InTurn(Event("asset_finished", course.at, <<course.item, course.chunks>>))
    BY <1>0 DEF AssetEnds, Moves, InTurn, Event, Located
  <2> QED
    BY <2>1, ToldBy
<1>12. TellEnd => One
  <2>1. TellEnd => InTurn(EndEvent)
    BY DEF TellEnd, Moves, InTurn, Event, EndEvent, EndKinds
  <2> QED
    BY <2>1, ToldBy
<1> DEFINE Two == stage \in {"pages", "vision"} /\ \E d, e :
             /\ TellsTwo(d, e) /\ InTurn(d) /\ InTurn(e)
             /\ {d.kind, e.kind} \subseteq {"ocr_started", "ocr_finished", "asset_phase"}
<1>13. Vision => told' = told \/ One \/ Two
  <2> SUFFICES ASSUME Vision, told' # told, ~One PROVE Two
    OBVIOUS
  <2> DEFINE d == Event("asset_phase", course.at, "ocr")
             e == Event("asset_phase", course.at, "caption")
  <2>1. InTurn(d) /\ InTurn(e)
    BY <1>7
  <2>2. d.kind = "asset_phase" /\ e.kind = "asset_phase" /\ stage = "vision"
    BY DEF Event, Vision, Moves
  <2>3. TellsTwo(d, e)
    <3> HIDE DEF One
    <3>1. Tells(d) \/ Tells(e) => One
      BY <2>1 DEF One
    <3> QED
      BY <3>1, ToldBy
  <2> HIDE DEF d, e
  <2> QED
    BY <2>1, <2>2, <2>3
<1>14. PageRead => Two
  <2> SUFFICES ASSUME PageRead PROVE Two
    OBVIOUS
  <2> DEFINE d == Event("ocr_started", course.page + 1, 0)
             e(fate) == Event("ocr_finished", course.page + 1, fate)
  <2>1. PICK fate : TellsTwo(d, e(fate))
    BY ToldBy
  <2>2. d.kind = "ocr_started" /\ e(fate).kind = "ocr_finished" /\ stage = "pages"
    BY DEF Event, PageRead
  <2>3. InTurn(d) /\ InTurn(e(fate))
    BY <2>2 DEF InTurn
  <2> HIDE DEF d, e
  <2> QED
    BY <2>1, <2>2, <2>3
<1> HIDE DEF One, Two
<1>15. shown <= Len(told)
  BY <1>0
<1> QED
  BY <1>1, <1>2, <1>3, <1>4, <1>5, <1>6, <1>8, <1>9, <1>10, <1>11, <1>12, <1>13, <1>14, <1>15, ToldElse DEF One, Two

\* The events stay typed and in their order.
LEMMA ToldTyped ==
  ASSUME ProgressTyped, Located, ToldInv, AllFollow(begun, told), ProgressNext
  PROVE  told' \in Seq(Events) /\ shown' \in 0 .. Len(told') /\ AllFollow(begun', told')
<1>0. /\ told \in Seq(Events) /\ shown \in 0 .. Len(told) /\ Len(told) \in Nat /\ begun' = begun
  BY OneEventMore, StagesTyped DEF ProgressTyped
<1>1. CASE shown' \in {shown, shown + 1} /\ shown' <= Len(told) /\ told' = told
  BY <1>0, <1>1
<1>2. CASE Quit
  <2>1. told' = << >> /\ shown' = 0
    BY <1>2 DEF Quit
  <2> QED
    BY <1>0, <2>1 DEF AllFollow
<1>3. ASSUME NEW e, Tells(e), InTurn(e), shown' = shown
      PROVE  told' \in Seq(Events) /\ shown' \in 0 .. Len(told') /\ AllFollow(begun', told')
  <2>1. AllFollow(begun, told')
    BY <1>0, <1>3, InTurnFollows, OneMoreFollows DEF Tells
  <2> QED
    BY <1>0, <1>3, <2>1, OneEventMore DEF Tells
<1>4. ASSUME NEW d, NEW e, TellsTwo(d, e), InTurn(d), InTurn(e), shown' = shown, stage \in {"pages", "vision"},
             {d.kind, e.kind} \subseteq {"ocr_started", "ocr_finished", "asset_phase"}
      PROVE  told' \in Seq(Events) /\ shown' \in 0 .. Len(told') /\ AllFollow(begun', told')
  <2> DEFINE t == Append(told, d)
             N == Len(told)
  <2>1. d \in Events /\ e \in Events /\ told' = Append(t, e)
    BY <1>4 DEF TellsTwo
  <2>2. t \in Seq(Events) /\ Len(t) = N + 1 /\ t[N + 1] = d
        /\ told' \in Seq(Events) /\ Len(told') = N + 2
    BY <1>0, <2>1, OneEventMore
  <2>3. AllFollow(begun, t) /\ Follows(begun, told, N, e)
    BY <1>0, <1>4, <2>1, InTurnFollows, OneMoreFollows
  <2>4. Follows(begun, t, N, e)
    BY <1>0, <2>1, <2>3, FollowsKept
  <2>5. Follows(begun, t, N + 1, e)
    <3>0. N + 1 \in 1 .. Len(t) /\ (N + 1) - 1 = N
      BY <1>0, <2>2
    <3>1. Flying(t, N + 1) = Flying(t, N)
      <4>1. d.kind # "asset_started" /\ d.kind # "asset_finished"
        BY <1>4
      <4>2. Flying(t, N + 1) = IF t[N + 1].kind = "asset_started" THEN t[N + 1].idx
                               ELSE IF t[N + 1].kind = "asset_finished" THEN 0 ELSE Flying(t, (N + 1) - 1)
        BY <2>2, <3>0, FlyingAfter
      <4> QED
        BY <2>2, <3>0, <4>1, <4>2
    <3>2. N >= 2 /\ d.kind \notin OpenSweep
      BY <1>0, <1>4 DEF ToldInv, ToldSoFar, NotBegun, OpenSweep
    <3>3. e.kind \in {"ocr_started", "ocr_finished", "asset_phase"}
      BY <1>4
    <3>4. FollowsScan(begun, N + 1, e)
      BY <1>0, <3>2, <3>3 DEF FollowsScan
    <3>5. FollowsSweep(begun, t, N + 1, e)
      BY <1>0, <2>2, <3>2, <3>3 DEF FollowsSweep, SweepKinds
    <3>6. FollowsAsset(begun, t, N + 1, e)
      BY <2>4, <3>1, <3>3 DEF Follows, FollowsAsset
    <3>7. FollowsEnd(t, N + 1, e)
      <4>1. SentUpTo(t, EndKinds, N + 1) = SentUpTo(t, EndKinds, N)
        <5>1. d.kind \notin EndKinds
          BY <1>4 DEF EndKinds
        <5>2. PICK n \in 1 .. Len(t) : n = N + 1
          BY <3>0
        <5>3. SentUpTo(t, EndKinds, n) = SentUpTo(t, EndKinds, n - 1) \cup (IF t[n].kind \in EndKinds THEN {n} ELSE {})
          <6> HIDE DEF t
          <6> QED
            BY <2>2, SentUpToMore
        <5> QED
          BY <2>2, <3>0, <5>1, <5>2, <5>3
      <4> QED
        BY <2>4, <3>1, <4>1 DEF Follows, FollowsEnd
    <3> QED
      BY <3>4, <3>5, <3>6, <3>7 DEF Follows
  <2>6. AllFollow(begun, told')
    BY <2>1, <2>2, <2>3, <2>5, OneMoreFollows
  <2> QED
    BY <1>0, <1>4, <2>2, <2>6
<1> QED
  BY <1>1, <1>2, <1>3, <1>4, StepTells

\* What is in flight after an event, f being so before it.
Landed(e, f) == IF e.kind = "asset_started" THEN e.idx ELSE IF e.kind = "asset_finished" THEN 0 ELSE f
IsPurge(e) == e.kind = "sweep_progress" /\ e.detail = "purged"

\* What one event more makes of what was told.
LEMMA OneMoreFlies ==
  ASSUME NEW t \in Seq(Events), NEW e \in Events
  PROVE  Flying(Append(t, e), Len(t) + 1) = Landed(e, Flying(t, Len(t)))
<1> DEFINE u == Append(t, e)
<1>1. u \in Seq(Events) /\ Len(u) = Len(t) + 1 /\ Len(t) \in Nat /\ u[Len(t) + 1] = e
  BY OneEventMore
<1>2. PICK n \in 1 .. Len(u) : n = Len(t) + 1 /\ n - 1 = Len(t)
  BY <1>1
<1>3. Flying(u, Len(t)) = Flying(t, Len(t))
  <2>1. PICK m \in 0 .. Len(t) : m = Len(t)
    BY <1>1
  <2> QED
    BY <2>1, FlyingKept
<1> HIDE DEF u
<1>4. Flying(u, n) = IF u[n].kind = "asset_started" THEN u[n].idx
                     ELSE IF u[n].kind = "asset_finished" THEN 0 ELSE Flying(u, n - 1)
  BY <1>1, FlyingAfter
<1>5. Flying(u, n) = Landed(e, Flying(t, Len(t)))
  BY <1>1, <1>2, <1>3, <1>4 DEF Landed
<1> QED
  BY <1>2, <1>5 DEF u

\* The purges told, with one event more.
LEMMA PurgesOneMore ==
  ASSUME NEW t \in Seq(Events), NEW e \in Events
  PROVE  /\ Cardinality(PurgesIn(t)) \in Nat
         /\ IsPurge(e) => Cardinality(PurgesIn(Append(t, e))) = Cardinality(PurgesIn(t)) + 1
         /\ ~IsPurge(e) => PurgesIn(Append(t, e)) = PurgesIn(t)
<1> DEFINE u == Append(t, e)
           n == Len(t) + 1
<1>1. /\ Len(t) \in Nat /\ u[n] = e /\ \A i \in 1 .. Len(t) : u[i] = t[i]
  BY OneEventMore
<1>2. /\ SentIn(u, {"sweep_progress"}) =
           SentIn(t, {"sweep_progress"}) \cup (IF e.kind \in {"sweep_progress"} THEN {n} ELSE {})
      /\ SentIn(t, {"sweep_progress"}) \in SUBSET (1 .. Len(t))
  BY SentOneMore
<1> HIDE DEF u, n
<1>3. PurgesIn(t) \in SUBSET (1 .. Len(t))
  BY <1>2 DEF PurgesIn
<1>4. IsFiniteSet(PurgesIn(t)) /\ Cardinality(PurgesIn(t)) \in Nat
  BY <1>1, <1>3, Ranks, Zenon
<1>5. n \notin PurgesIn(t)
  BY <1>1, <1>3 DEF n
<1>6. ASSUME IsPurge(e) PROVE Cardinality(PurgesIn(u)) = Cardinality(PurgesIn(t)) + 1
  <2>1. PurgesIn(u) = PurgesIn(t) \cup {n}
    BY <1>1, <1>2, <1>6 DEF PurgesIn, IsPurge
  <2> QED
    BY <1>4, <1>5, <2>1, FS_AddElement
<1>7. ASSUME ~IsPurge(e) PROVE PurgesIn(u) = PurgesIn(t)
  BY <1>1, <1>2, <1>7 DEF PurgesIn, IsPurge
<1> QED
  BY <1>4, <1>6, <1>7 DEF u

\* The kinds that are counted.
LEMMA AfterOne ==
  ASSUME told \in Seq(Events), NEW e, Tells(e)
  PROVE  /\ Len(told) \in Nat /\ Len(told') = Len(told) + 1 /\ told' # << >> /\ e \in Events
         /\ told'[Len(told')] = e /\ \A i \in 1 .. Len(told) : told'[i] = told[i]
         /\ Flying(told', Len(told')) = Landed(e, Flying(told, Len(told)))
         /\ e.kind = "asset_started" => Cardinality(SentIn(told', {"asset_started"})) =
                                          Cardinality(SentIn(told, {"asset_started"})) + 1
         /\ e.kind # "asset_started" => SentIn(told', {"asset_started"}) = SentIn(told, {"asset_started"})
         /\ e.kind = "sweep_progress" => Cardinality(SentIn(told', {"sweep_progress"})) =
                                           Cardinality(SentIn(told, {"sweep_progress"})) + 1
         /\ e.kind # "sweep_progress" => SentIn(told', {"sweep_progress"}) = SentIn(told, {"sweep_progress"})
         /\ e.kind \in EndKinds => SentIn(told', EndKinds) = SentIn(told, EndKinds) \cup {Len(told')}
         /\ e.kind \notin EndKinds => SentIn(told', EndKinds) = SentIn(told, EndKinds)
         /\ \A i \in SentIn(told', {"asset_timings"}) :
              \/ i \in SentIn(told, {"asset_timings"}) /\ told'[i] = told[i]
              \/ e.kind = "asset_timings" /\ told'[i] = e
         /\ IsPurge(e) => Cardinality(PurgesIn(told')) = Cardinality(PurgesIn(told)) + 1
         /\ ~IsPurge(e) => PurgesIn(told') = PurgesIn(told)
<1>0. e \in Events /\ told' = Append(told, e)
  BY DEF Tells
<1>1. /\ Len(told) \in Nat /\ Len(told') = Len(told) + 1 /\ told' # << >>
      /\ told'[Len(told')] = e /\ \A i \in 1 .. Len(told) : told'[i] = told[i]
  BY <1>0, OneEventMore
<1>2. Flying(told', Len(told')) = Landed(e, Flying(told, Len(told)))
  BY <1>0, <1>1, OneMoreFlies
<1>3. ASSUME NEW kinds
      PROVE  /\ SentIn(told', kinds) = SentIn(told, kinds) \cup (IF e.kind \in kinds THEN {Len(told')} ELSE {})
             /\ SentIn(told, kinds) \in SUBSET (1 .. Len(told))
             /\ Cardinality(SentIn(told', kinds)) = Cardinality(SentIn(told, kinds)) + (IF e.kind \in kinds THEN 1 ELSE 0)
  BY <1>0, <1>1, SentOneMore
<1>4. ASSUME NEW kind, e.kind = kind
      PROVE  Cardinality(SentIn(told', {kind})) = Cardinality(SentIn(told, {kind})) + 1
  BY <1>3, <1>4
<1>5. ASSUME NEW kind, e.kind # kind
      PROVE  SentIn(told', {kind}) = SentIn(told, {kind})
  BY <1>3, <1>5
<1>6. /\ e.kind \in EndKinds => SentIn(told', EndKinds) = SentIn(told, EndKinds) \cup {Len(told')}
      /\ e.kind \notin EndKinds => SentIn(told', EndKinds) = SentIn(told, EndKinds)
  BY <1>3
<1>7. \A i \in SentIn(told', {"asset_timings"}) :
        \/ i \in SentIn(told, {"asset_timings"}) /\ told'[i] = told[i]
        \/ e.kind = "asset_timings" /\ told'[i] = e
  BY <1>1, <1>3
<1>8. /\ IsPurge(e) => Cardinality(PurgesIn(told')) = Cardinality(PurgesIn(told)) + 1
      /\ ~IsPurge(e) => PurgesIn(told') = PurgesIn(told)
  BY <1>0, PurgesOneMore
<1> QED
  BY <1>0, <1>1, <1>2, <1>4, <1>5, <1>6, <1>7, <1>8

\* The same for two events of a page or an image.
LEMMA AfterTwo ==
  ASSUME told \in Seq(Events), NEW d, NEW e, TellsTwo(d, e),
         {d.kind, e.kind} \subseteq {"ocr_started", "ocr_finished", "asset_phase"}
  PROVE  /\ Len(told) \in Nat /\ Len(told') = Len(told) + 2 /\ told' # << >>
         /\ told'[Len(told')] = e /\ \A i \in 1 .. Len(told) : told'[i] = told[i]
         /\ Flying(told', Len(told')) = Flying(told, Len(told))
         /\ \A kinds : kinds \cap {"ocr_started", "ocr_finished", "asset_phase"} = {} =>
              SentIn(told', kinds) = SentIn(told, kinds) /\ SentIn(told, kinds) \in SUBSET (1 .. Len(told))
         /\ PurgesIn(told') = PurgesIn(told)
<1> DEFINE v == Append(told, d)
<1>1. /\ d \in Events /\ e \in Events /\ told' = Append(v, e)
      /\ v \in Seq(Events) /\ Len(v) = Len(told) + 1 /\ Len(told) \in Nat /\ \A i \in 1 .. Len(told) : v[i] = told[i]
  BY OneEventMore DEF TellsTwo
<1>2. /\ Flying(v, Len(told) + 1) = Landed(d, Flying(told, Len(told)))
      /\ ~IsPurge(d) => PurgesIn(v) = PurgesIn(told)
  BY <1>1, OneMoreFlies, PurgesOneMore
<1>3. ASSUME NEW kinds, d.kind \notin kinds
      PROVE  SentIn(v, kinds) = SentIn(told, kinds) /\ SentIn(told, kinds) \in SUBSET (1 .. Len(told))
  <2>1. /\ SentIn(Append(told, d), kinds) = SentIn(told, kinds) \cup (IF d.kind \in kinds THEN {Len(told) + 1} ELSE {})
        /\ SentIn(told, kinds) \in SUBSET (1 .. Len(told))
    BY <1>1, SentOneMore
  <2> QED
    BY <1>3, <2>1
<1> HIDE DEF v
<1>4. /\ Len(told') = Len(v) + 1 /\ told' # << >> /\ told'[Len(told')] = e /\ \A i \in 1 .. Len(v) : told'[i] = v[i]
  BY <1>1, OneEventMore
<1>5. /\ Flying(told', Len(v) + 1) = Landed(e, Flying(v, Len(v)))
      /\ ~IsPurge(e) => PurgesIn(told') = PurgesIn(v)
  BY <1>1, OneMoreFlies, PurgesOneMore
<1>6. ASSUME NEW kinds, e.kind \notin kinds
      PROVE  SentIn(told', kinds) = SentIn(v, kinds)
  <2>1. SentIn(Append(v, e), kinds) = SentIn(v, kinds) \cup (IF e.kind \in kinds THEN {Len(v) + 1} ELSE {})
    BY <1>1, SentOneMore
  <2> QED
    BY <1>1, <1>6, <2>1
<1>7. ~IsPurge(d) /\ ~IsPurge(e) /\ \A f : Landed(d, f) = f /\ Landed(e, f) = f
  BY DEF IsPurge, Landed
<1>8. Len(told') = Len(told) + 2 /\ \A i \in 1 .. Len(told) : told'[i] = told[i]
  BY <1>1, <1>4
<1>9. Flying(told', Len(told')) = Flying(told, Len(told))
  BY <1>1, <1>2, <1>4, <1>5, <1>7
<1>10. ASSUME NEW kinds, kinds \cap {"ocr_started", "ocr_finished", "asset_phase"} = {}
       PROVE  SentIn(told', kinds) = SentIn(told, kinds) /\ SentIn(told, kinds) \in SUBSET (1 .. Len(told))
  <2>1. d.kind \notin kinds /\ e.kind \notin kinds
    BY <1>10
  <2> QED
    BY <1>3, <1>6, <2>1
<1>11. PurgesIn(told') = PurgesIn(told)
  BY <1>2, <1>5, <1>7
<1> QED
  BY <1>1, <1>4, <1>8, <1>9, <1>10, <1>11

\* The steps that tell nothing leave the run where what it told says it is.
LEMMA SilentTold ==
  ASSUME ProgressTyped, Located, ToldInv, told' = told, begun' = begun,
         \/ RunFails \/ SeedStopped \/ LoopStops \/ AssetPasses \/ CodeStored \/ AssetFails \/ PagesCancelled
         \/ PagesEnd \/ CreateJob \/ UpdateJob \/ FinishJob \/ RecordRun \/ Summarize \/ Handle \/ StdoutCloses \/ Join
         \/ (SweepBegins /\ stage' = "seed") \/ Vision \/ Interrupted
  PROVE  ToldInv'
<1>0. /\ course.at \in Nat /\ course.purged \in Nat /\ course.stopped \in BOOLEAN /\ course.chunks \in Nat
      /\ course \in Courses /\ Len(begun.assets) \in Nat /\ begun.stored \in Nat /\ Len(told) \in Nat /\ presses \in 0 .. 2
  BY OneEventMore, BegunIs DEF ProgressTyped, Courses
<1> USE DEF ToldInv, ToldSoFar, ToldOfAssets, ToldOfSweep, ToldOfEnd, Counts, NotBegun, LoopStages, AssetStages, AfterLoop, Ends
<1>1. CASE RunFails
  BY <1>0, <1>1 DEF RunFails, Fails
<1>2. CASE SeedStopped
  BY <1>0, <1>2 DEF SeedStopped, Moves, Quietly, Courses, Located, Pressed
<1>3. CASE LoopStops
  BY <1>0, <1>3 DEF LoopStops, Moves, Quietly, Courses, Located, Pressed
<1>4. CASE AssetPasses
  BY <1>0, <1>4 DEF AssetPasses, Quietly, Item, Courses, Located, Pressed
<1>5. CASE CodeStored
  BY <1>0, <1>5 DEF CodeStored, Quietly, Item, Courses, Located, Pressed
<1>6. CASE AssetFails
  BY <1>0, <1>6 DEF AssetFails, Fails, Item, Courses, Located, Pressed
<1>7. CASE PagesCancelled
  BY <1>0, <1>7 DEF PagesCancelled, Quietly, Item, Courses, Located, Pressed
<1>8. CASE PagesEnd
  BY <1>0, <1>8 DEF PagesEnd, Moves, Quietly
<1>9. CASE CreateJob
  BY <1>0, <1>9 DEF CreateJob, Quietly, Fails
<1>10. CASE UpdateJob
  BY <1>0, <1>10 DEF UpdateJob, Moves, Quietly, Fails
<1>11. CASE FinishJob
  BY <1>0, <1>11 DEF FinishJob, Moves, Quietly, Fails
<1>12. CASE RecordRun
  BY <1>0, <1>12 DEF RecordRun, Moves, Quietly, Fails
<1>13. CASE Summarize
  BY <1>0, <1>13 DEF Summarize, Moves, Quietly
<1>14. CASE Handle
  BY <1>0, <1>14 DEF Handle, Listening
<1>15. CASE StdoutCloses
  BY <1>0, <1>15 DEF StdoutCloses, Listening
<1>16. CASE Join
  BY <1>0, <1>16 DEF Join
<1>17. CASE SweepBegins /\ stage' = "seed"
  <2>1. stage = "setup" /\ stage' = "seed" /\ course' = course /\ totals' = totals /\ presses' = presses
    BY <1>17 DEF SweepBegins, Quietly
  <2>2. ToldSoFar'
    <3>1. ~(told # << >> /\ told[Len(told)].kind \in OpenSweep) /\ Len(told) = 2
      BY <2>1
    <3>2. (stage' = "sweep") = (told' # << >> /\ told'[Len(told')].kind \in OpenSweep)
      BY <2>1, <3>1
    <3> QED
      BY <2>1, <3>1, <3>2
  <2>3. ToldOfAssets' /\ ToldOfSweep'
    BY <1>0, <2>1
  <2>4. ToldOfEnd'
    BY <1>0, <2>1
  <2> QED
    BY <2>2, <2>3, <2>4
<1>18. CASE Vision
  BY <1>0, <1>18 DEF Vision, Moves, Quietly
<1>19. CASE Interrupted
  BY <1>0, <1>19 DEF Interrupted
<1> QED
  BY <1>1, <1>2, <1>3, <1>4, <1>5, <1>6, <1>7, <1>8, <1>9, <1>10, <1>11, <1>12, <1>13, <1>14, <1>15, <1>16, <1>17, <1>18, <1>19

\* A position up to n + 1 is the last one or one before it.
LEMMA LastOrBefore ==
  ASSUME NEW n \in Nat
  PROVE  \A j \in 3 .. n + 1 : j = n + 1 \/ (j \in 3 .. n /\ j \in 1 .. n)
OBVIOUS

\* No other event is of a time.
LEMMA TimingsKept ==
  ASSUME told \in Seq(Events), NEW e, Tells(e), e.kind # "asset_timings"
  PROVE  /\ SentIn(told', {"asset_timings"}) = SentIn(told, {"asset_timings"})
         /\ \A i \in SentIn(told, {"asset_timings"}) : told'[i] = told[i]
<1>1. e \in Events /\ told' = Append(told, e)
  BY DEF Tells
<1>2. /\ SentIn(Append(told, e), {"asset_timings"}) =
           SentIn(told, {"asset_timings"}) \cup (IF e.kind \in {"asset_timings"} THEN {Len(told) + 1} ELSE {})
      /\ SentIn(told, {"asset_timings"}) \in SUBSET (1 .. Len(told))
  BY <1>1, SentOneMore
<1>3. \A i \in 1 .. Len(told) : told'[i] = told[i]
  BY <1>1, OneEventMore
<1> QED
  BY <1>1, <1>2, <1>3

\* The steps that tell one event leave the run where what it told says it is.
LEMMA OneTold ==
  ASSUME ProgressTyped, Located, Located', ToldInv, begun' = begun, course' \in Courses,
         \/ OpenLog \/ ScanEnds \/ (SweepBegins /\ stage' = "sweep") \/ Examine \/ SweepEnds \/ AssetStarts
         \/ Chunks \/ Stores \/ Embeds \/ AssetEnds \/ TellEnd
  PROVE  ToldInv'
<1>0. /\ course.at \in Nat /\ course.purged \in Nat /\ course.stopped \in BOOLEAN /\ course.chunks \in Nat
      /\ course \in Courses /\ Len(begun.assets) \in Nat /\ begun.stored \in Nat /\ Len(told) \in Nat
      /\ told \in Seq(Events) /\ stage \in Stages
  BY OneEventMore, BegunIs DEF ProgressTyped, Courses
<1>a. Len(told) \in Nat
  BY <1>0
<1>b. /\ stage = "scan" => Len(told) = 1
      /\ stage = "setup" => Len(told) = 2
      /\ stage \in {"sweep", "next"} => Len(told) >= 2
  BY DEF ToldInv, ToldSoFar, NotBegun
<1>c. stage = "sweep" => \A j \in 3 .. Len(told) : told[j].kind \in OpenSweep
  BY DEF ToldInv, ToldSoFar
<1>d. \A i \in SentIn(told, {"asset_timings"}) : told[i].idx \in Nat
  <2>1. \A i \in DOMAIN told : told[i] \in Events
    BY <1>0, OneEventMore
  <2> QED
    BY <2>1 DEF SentIn, Events
<1>1. CASE OpenLog
  <2> DEFINE e == Event("scan_started", 0, 0)
  <2>1. Tells(e)
    BY <1>1, ToldBy
  <2>2. stage = "start" /\ stage' = "scan" /\ course' = course
    BY <1>1 DEF OpenLog, Courses, Moves
  <2>3. e.kind = "scan_started"
    BY DEF Event
  <2> HIDE DEF e
  <2>4. /\ Len(told') = Len(told) + 1 /\ told' # << >> /\ told'[Len(told')] = e
    BY <1>0, <2>1, AfterOne
  <2>14. \A i \in 1 .. Len(told) : told'[i] = told[i]
    BY <1>0, <2>1, AfterOne
  <2>5. Flying(told', Len(told')) = Flying(told, Len(told))
    BY <1>0, <2>1, <2>3, AfterOne DEF Landed
  <2>6. /\ Cardinality(SentIn(told', {"asset_started"})) = Cardinality(SentIn(told, {"asset_started"}))
        /\ Cardinality(SentIn(told', {"sweep_progress"})) = Cardinality(SentIn(told, {"sweep_progress"}))
    BY <1>0, <2>1, <2>3, AfterOne
  <2>7. Cardinality(PurgesIn(told')) = Cardinality(PurgesIn(told))
    BY <1>0, <2>1, <2>3, AfterOne DEF IsPurge
  <2>8. SentIn(told', EndKinds) = SentIn(told, EndKinds)
    BY <1>0, <2>1, <2>3, AfterOne DEF EndKinds
  <2>9. SentIn(told', {"asset_timings"}) = SentIn(told, {"asset_timings"})
        /\ \A i \in SentIn(told, {"asset_timings"}) : told'[i] = told[i]
    BY <1>0, <2>1, <2>3, TimingsKept
  <2>10. ToldSoFar'
    BY <1>0, <2>2, <2>3, <2>4 DEF ToldInv, ToldSoFar, OpenSweep, NotBegun, LoopStages, AssetStages, AfterLoop, Ends
  <2>11. ToldOfAssets'
    BY <1>0, <2>2, <2>5, <2>6, <2>9 DEF ToldInv, ToldOfAssets, NotBegun, LoopStages, AssetStages, AfterLoop, Ends
  <2>12. ToldOfSweep'
    BY <1>0, <2>2, <2>6, <2>7 DEF ToldInv, ToldOfSweep, NotBegun, LoopStages, AssetStages, AfterLoop, Ends
  <2>13. ToldOfEnd'
    BY <1>0, <2>2, <2>3, <2>4, <2>8 DEF ToldInv, ToldOfEnd, Counts, NotBegun, LoopStages, AssetStages, AfterLoop, Ends
  <2> QED
    BY <2>10, <2>11, <2>12, <2>13 DEF ToldInv
<1>2. CASE ScanEnds
  <2> DEFINE e == Event("scan_completed", Len(begun.assets), 0)
  <2>1. Tells(e)
    BY <1>2, ToldBy
  <2>2. stage = "scan" /\ stage' = "setup" /\ course' = course
    BY <1>2 DEF ScanEnds, Courses, Moves
  <2>3. e.kind = "scan_completed" /\ e.idx = Len(begun.assets)
    BY DEF Event
  <2> HIDE DEF e
  <2>4. /\ Len(told') = Len(told) + 1 /\ told' # << >> /\ told'[Len(told')] = e
    BY <1>0, <2>1, AfterOne
  <2>14. \A i \in 1 .. Len(told) : told'[i] = told[i]
    BY <1>0, <2>1, AfterOne
  <2>5. Flying(told', Len(told')) = Flying(told, Len(told))
    BY <1>0, <2>1, <2>3, AfterOne DEF Landed
  <2>6. /\ Cardinality(SentIn(told', {"asset_started"})) = Cardinality(SentIn(told, {"asset_started"}))
        /\ Cardinality(SentIn(told', {"sweep_progress"})) = Cardinality(SentIn(told, {"sweep_progress"}))
    BY <1>0, <2>1, <2>3, AfterOne
  <2>7. Cardinality(PurgesIn(told')) = Cardinality(PurgesIn(told))
    BY <1>0, <2>1, <2>3, AfterOne DEF IsPurge
  <2>8. SentIn(told', EndKinds) = SentIn(told, EndKinds)
    BY <1>0, <2>1, <2>3, AfterOne DEF EndKinds
  <2>9. SentIn(told', {"asset_timings"}) = SentIn(told, {"asset_timings"})
        /\ \A i \in SentIn(told, {"asset_timings"}) : told'[i] = told[i]
    BY <1>0, <2>1, <2>3, TimingsKept
  <2>10. ToldSoFar'
    <3>1. Len(told') = 2 /\ ~(told'[Len(told')].kind \in OpenSweep)
      <4>1. Len(told') = 2
        <5>1. Len(told) = 1
          BY <1>b, <2>2
        <5> QED
          BY <5>1, <2>4
      <4> QED
        BY <4>1, <2>3, <2>4 DEF OpenSweep
    <3>2. (stage' = "sweep") = (told' # << >> /\ told'[Len(told')].kind \in OpenSweep)
      BY <2>2, <3>1
    <3> QED
      BY <2>2, <3>1, <3>2 DEF ToldSoFar, NotBegun, LoopStages, AssetStages, AfterLoop, Ends
  <2>11. ToldOfAssets'
    BY <1>0, <2>2, <2>5, <2>6, <2>9 DEF ToldInv, ToldOfAssets, NotBegun, LoopStages, AssetStages, AfterLoop, Ends
  <2>12. ToldOfSweep'
    BY <1>0, <2>2, <2>6, <2>7 DEF ToldInv, ToldOfSweep, NotBegun, LoopStages, AssetStages, AfterLoop, Ends
  <2>13. ToldOfEnd'
    BY <1>0, <2>2, <2>3, <2>4, <2>8 DEF ToldInv, ToldOfEnd, Counts, NotBegun, LoopStages, AssetStages, AfterLoop, Ends
  <2> QED
    BY <2>10, <2>11, <2>12, <2>13 DEF ToldInv
<1>3. CASE SweepBegins /\ stage' = "sweep"
  <2> DEFINE e == Event("sweep_started", begun.stored, 0)
  <2>1. Tells(e)
    BY <1>3, ToldBy, <1>0
  <2>2. stage = "setup" /\ stage' = "sweep" /\ course' = course
    BY <1>3 DEF SweepBegins, Courses
  <2>3. e.kind = "sweep_started" /\ e.idx = begun.stored
    BY DEF Event
  <2> HIDE DEF e
  <2>4. /\ Len(told') = Len(told) + 1 /\ told' # << >> /\ told'[Len(told')] = e
    BY <1>0, <2>1, AfterOne
  <2>14. \A i \in 1 .. Len(told) : told'[i] = told[i]
    BY <1>0, <2>1, AfterOne
  <2>5. Flying(told', Len(told')) = Flying(told, Len(told))
    BY <1>0, <2>1, <2>3, AfterOne DEF Landed
  <2>6. /\ Cardinality(SentIn(told', {"asset_started"})) = Cardinality(SentIn(told, {"asset_started"}))
        /\ Cardinality(SentIn(told', {"sweep_progress"})) = Cardinality(SentIn(told, {"sweep_progress"}))
    BY <1>0, <2>1, <2>3, AfterOne
  <2>7. Cardinality(PurgesIn(told')) = Cardinality(PurgesIn(told))
    BY <1>0, <2>1, <2>3, AfterOne DEF IsPurge
  <2>8. SentIn(told', EndKinds) = SentIn(told, EndKinds)
    BY <1>0, <2>1, <2>3, AfterOne DEF EndKinds
  <2>9. SentIn(told', {"asset_timings"}) = SentIn(told, {"asset_timings"})
        /\ \A i \in SentIn(told, {"asset_timings"}) : told'[i] = told[i]
    BY <1>0, <2>1, <2>3, TimingsKept
  <2>10. ToldSoFar'
    <3>1. Len(told) >= 2 /\ Len(told') >= 2
      BY <1>a, <1>b, <2>2, <2>4
    <3>2. (told' # << >> /\ told'[Len(told')].kind \in OpenSweep)
      BY <2>3, <2>4 DEF OpenSweep
    <3>6. 3 .. Len(told) = {}
      <4>1. Len(told) = 2
        BY <1>b, <2>2
      <4> QED
        BY <4>1
    <3>3. \A j \in 3 .. Len(told) : told[j].kind \in OpenSweep
      BY <3>6
    <3>4. ASSUME NEW j \in 3 .. Len(told') PROVE told'[j].kind \in OpenSweep
      <4>1. j = Len(told') \/ (j \in 3 .. Len(told) /\ j \in 1 .. Len(told))
        BY <1>a, <2>4, LastOrBefore, Zenon
      <4> QED
        BY <2>14, <3>2, <3>3, <4>1
    <3>5. (stage' = "sweep") = (told' # << >> /\ told'[Len(told')].kind \in OpenSweep)
      BY <2>2, <3>2
    <3> QED
      BY <2>2, <3>1, <3>4, <3>5 DEF ToldSoFar, NotBegun, LoopStages, AssetStages, AfterLoop, Ends
  <2>11. ToldOfAssets'
    BY <1>0, <2>2, <2>5, <2>6, <2>9 DEF ToldInv, ToldOfAssets, NotBegun, LoopStages, AssetStages, AfterLoop, Ends
  <2>12. ToldOfSweep'
    BY <1>0, <2>2, <2>6, <2>7 DEF ToldInv, ToldOfSweep, NotBegun, LoopStages, AssetStages, AfterLoop, Ends
  <2>13. ToldOfEnd'
    BY <1>0, <2>2, <2>3, <2>4, <2>8 DEF ToldInv, ToldOfEnd, Counts, NotBegun, LoopStages, AssetStages, AfterLoop, Ends
  <2> QED
    BY <2>10, <2>11, <2>12, <2>13 DEF ToldInv
<1>4. CASE SweepEnds
  <2> DEFINE e == Event("sweep_completed", course.at, course.purged)
  <2>1. Tells(e)
    BY <1>4, ToldBy
  <2>2. stage = "sweep" /\ stage' = "seed" /\ course' = course
    BY <1>4 DEF SweepEnds, Courses, Moves
  <2>3. e.kind = "sweep_completed"
    BY DEF Event
  <2> HIDE DEF e
  <2>4. /\ Len(told') = Len(told) + 1 /\ told' # << >> /\ told'[Len(told')] = e
    BY <1>0, <2>1, AfterOne
  <2>14. \A i \in 1 .. Len(told) : told'[i] = told[i]
    BY <1>0, <2>1, AfterOne
  <2>5. Flying(told', Len(told')) = Flying(told, Len(told))
    BY <1>0, <2>1, <2>3, AfterOne DEF Landed
  <2>6. /\ Cardinality(SentIn(told', {"asset_started"})) = Cardinality(SentIn(told, {"asset_started"}))
        /\ Cardinality(SentIn(told', {"sweep_progress"})) = Cardinality(SentIn(told, {"sweep_progress"}))
    BY <1>0, <2>1, <2>3, AfterOne
  <2>7. Cardinality(PurgesIn(told')) = Cardinality(PurgesIn(told))
    BY <1>0, <2>1, <2>3, AfterOne DEF IsPurge
  <2>8. SentIn(told', EndKinds) = SentIn(told, EndKinds)
    BY <1>0, <2>1, <2>3, AfterOne DEF EndKinds
  <2>9. SentIn(told', {"asset_timings"}) = SentIn(told, {"asset_timings"})
        /\ \A i \in SentIn(told, {"asset_timings"}) : told'[i] = told[i]
    BY <1>0, <2>1, <2>3, TimingsKept
  <2>10. ToldSoFar'
    <3>1. Len(told) >= 2 /\ Len(told') >= 2
      BY <1>a, <1>b, <2>2, <2>4
    <3>2. ~(told' # << >> /\ told'[Len(told')].kind \in OpenSweep)
      BY <2>3, <2>4 DEF OpenSweep
    <3>5. (stage' = "sweep") = (told' # << >> /\ told'[Len(told')].kind \in OpenSweep)
      BY <2>2, <3>2
    <3> QED
      BY <2>2, <3>1, <3>5 DEF ToldSoFar, NotBegun, LoopStages, AssetStages, AfterLoop, Ends
  <2>11. ToldOfAssets'
    BY <1>0, <2>2, <2>5, <2>6, <2>9 DEF ToldInv, ToldOfAssets, NotBegun, LoopStages, AssetStages, AfterLoop, Ends
  <2>12. ToldOfSweep'
    BY <1>0, <2>2, <2>6, <2>7 DEF ToldInv, ToldOfSweep, NotBegun, LoopStages, AssetStages, AfterLoop, Ends
  <2>13. ToldOfEnd'
    BY <1>0, <2>2, <2>3, <2>4, <2>8 DEF ToldInv, ToldOfEnd, Counts, NotBegun, LoopStages, AssetStages, AfterLoop, Ends
  <2> QED
    BY <2>10, <2>11, <2>12, <2>13 DEF ToldInv
<1>5. CASE AssetStarts
  <2> DEFINE e == Event("asset_started", course.at + 1, 0)
  <2>1. Tells(e)
    BY <1>5, ToldBy
  <2>2. /\ stage = "next" /\ stage' \in {"pages", "vision", "chunk", "quiet"}
        /\ course'.at = course.at + 1 /\ course'.purged = course.purged /\ course'.stopped = course.stopped
    BY <1>5 DEF AssetStarts, Courses
  <2>3. e.kind = "asset_started" /\ e.idx = course.at + 1
    BY DEF Event
  <2> HIDE DEF e
  <2>4. /\ Len(told') = Len(told) + 1 /\ told' # << >> /\ told'[Len(told')] = e
    BY <1>0, <2>1, AfterOne
  <2>14. \A i \in 1 .. Len(told) : told'[i] = told[i]
    BY <1>0, <2>1, AfterOne
  <2>5. Flying(told', Len(told')) = course.at + 1
    BY <1>0, <2>1, <2>3, AfterOne DEF Landed
  <2>6. /\ Cardinality(SentIn(told', {"asset_started"})) = Cardinality(SentIn(told, {"asset_started"})) + 1
        /\ Cardinality(SentIn(told', {"sweep_progress"})) = Cardinality(SentIn(told, {"sweep_progress"}))
    BY <1>0, <2>1, <2>3, AfterOne
  <2>7. Cardinality(PurgesIn(told')) = Cardinality(PurgesIn(told))
    BY <1>0, <2>1, <2>3, AfterOne DEF IsPurge
  <2>8. SentIn(told', EndKinds) = SentIn(told, EndKinds)
    BY <1>0, <2>1, <2>3, AfterOne DEF EndKinds
  <2>9. SentIn(told', {"asset_timings"}) = SentIn(told, {"asset_timings"})
        /\ \A i \in SentIn(told, {"asset_timings"}) : told'[i] = told[i]
    BY <1>0, <2>1, <2>3, TimingsKept
  <2>10. ToldSoFar'
    BY <1>0, <2>2, <2>3, <2>4 DEF ToldInv, ToldSoFar, OpenSweep, NotBegun, LoopStages, AssetStages, AfterLoop, Ends
  <2>11. ToldOfAssets'
    <3>1. \A i \in SentIn(told', {"asset_timings"}) : told'[i].idx <= course.at /\ told'[i].idx \in Nat
      BY <1>d, <2>2, <2>9 DEF ToldInv, ToldOfAssets, LoopStages
    <3>2. \A i \in SentIn(told', {"asset_timings"}) : told'[i].idx <= course'.at /\ told'[i].idx # course'.at
      BY <1>0, <2>2, <3>1
    <3> QED
      BY <1>0, <2>2, <2>5, <2>6, <3>2 DEF ToldInv, ToldOfAssets, NotBegun, LoopStages, AssetStages, AfterLoop, Ends
  <2>12. ToldOfSweep'
    BY <1>0, <2>2, <2>6, <2>7 DEF ToldInv, ToldOfSweep, NotBegun, LoopStages, AssetStages, AfterLoop, Ends
  <2>13. ToldOfEnd'
    BY <1>0, <2>2, <2>3, <2>4, <2>8 DEF ToldInv, ToldOfEnd, Counts, NotBegun, LoopStages, AssetStages, AfterLoop, Ends
  <2> QED
    BY <2>10, <2>11, <2>12, <2>13 DEF ToldInv
<1>6. CASE Stores
  <2> DEFINE e == Event("asset_phase", course.at, "embed")
  <2>1. Tells(e)
    BY <1>6, ToldBy
  <2>2. stage = "store" /\ stage' = "embed" /\ course' = course
    BY <1>6 DEF Stores, Courses, Moves
  <2>3. e.kind = "asset_phase"
    BY DEF Event
  <2> HIDE DEF e
  <2>4. /\ Len(told') = Len(told) + 1 /\ told' # << >> /\ told'[Len(told')] = e
    BY <1>0, <2>1, AfterOne
  <2>14. \A i \in 1 .. Len(told) : told'[i] = told[i]
    BY <1>0, <2>1, AfterOne
  <2>5. Flying(told', Len(told')) = Flying(told, Len(told))
    BY <1>0, <2>1, <2>3, AfterOne DEF Landed
  <2>6. /\ Cardinality(SentIn(told', {"asset_started"})) = Cardinality(SentIn(told, {"asset_started"}))
        /\ Cardinality(SentIn(told', {"sweep_progress"})) = Cardinality(SentIn(told, {"sweep_progress"}))
    BY <1>0, <2>1, <2>3, AfterOne
  <2>7. Cardinality(PurgesIn(told')) = Cardinality(PurgesIn(told))
    BY <1>0, <2>1, <2>3, AfterOne DEF IsPurge
  <2>8. SentIn(told', EndKinds) = SentIn(told, EndKinds)
    BY <1>0, <2>1, <2>3, AfterOne DEF EndKinds
  <2>9. SentIn(told', {"asset_timings"}) = SentIn(told, {"asset_timings"})
        /\ \A i \in SentIn(told, {"asset_timings"}) : told'[i] = told[i]
    BY <1>0, <2>1, <2>3, TimingsKept
  <2>10. ToldSoFar'
    BY <1>0, <2>2, <2>3, <2>4 DEF ToldInv, ToldSoFar, OpenSweep, NotBegun, LoopStages, AssetStages, AfterLoop, Ends
  <2>11. ToldOfAssets'
    BY <1>0, <2>2, <2>5, <2>6, <2>9 DEF ToldInv, ToldOfAssets, NotBegun, LoopStages, AssetStages, AfterLoop, Ends
  <2>12. ToldOfSweep'
    BY <1>0, <2>2, <2>6, <2>7 DEF ToldInv, ToldOfSweep, NotBegun, LoopStages, AssetStages, AfterLoop, Ends
  <2>13. ToldOfEnd'
    BY <1>0, <2>2, <2>3, <2>4, <2>8 DEF ToldInv, ToldOfEnd, Counts, NotBegun, LoopStages, AssetStages, AfterLoop, Ends
  <2> QED
    BY <2>10, <2>11, <2>12, <2>13 DEF ToldInv
<1>7. CASE AssetEnds
  <2> DEFINE e == Event("asset_finished", course.at, <<course.item, course.chunks>>)
  <2>1. Tells(e)
    BY <1>7, ToldBy
  <2>2. stage = "tally" /\ stage' = "next" /\ course' = course
    BY <1>7 DEF AssetEnds, Courses, Moves
  <2>3. e.kind = "asset_finished"
    BY DEF Event
  <2> HIDE DEF e
  <2>4. /\ Len(told') = Len(told) + 1 /\ told' # << >> /\ told'[Len(told')] = e
    BY <1>0, <2>1, AfterOne
  <2>14. \A i \in 1 .. Len(told) : told'[i] = told[i]
    BY <1>0, <2>1, AfterOne
  <2>5. Flying(told', Len(told')) = 0
    BY <1>0, <2>1, <2>3, AfterOne DEF Landed
  <2>6. /\ Cardinality(SentIn(told', {"asset_started"})) = Cardinality(SentIn(told, {"asset_started"}))
        /\ Cardinality(SentIn(told', {"sweep_progress"})) = Cardinality(SentIn(told, {"sweep_progress"}))
    BY <1>0, <2>1, <2>3, AfterOne
  <2>7. Cardinality(PurgesIn(told')) = Cardinality(PurgesIn(told))
    BY <1>0, <2>1, <2>3, AfterOne DEF IsPurge
  <2>8. SentIn(told', EndKinds) = SentIn(told, EndKinds)
    BY <1>0, <2>1, <2>3, AfterOne DEF EndKinds
  <2>9. SentIn(told', {"asset_timings"}) = SentIn(told, {"asset_timings"})
        /\ \A i \in SentIn(told, {"asset_timings"}) : told'[i] = told[i]
    BY <1>0, <2>1, <2>3, TimingsKept
  <2>10. ToldSoFar'
    BY <1>0, <2>2, <2>3, <2>4 DEF ToldInv, ToldSoFar, OpenSweep, NotBegun, LoopStages, AssetStages, AfterLoop, Ends
  <2>11. ToldOfAssets'
    BY <1>0, <2>2, <2>5, <2>6, <2>9 DEF ToldInv, ToldOfAssets, NotBegun, LoopStages, AssetStages, AfterLoop, Ends
  <2>12. ToldOfSweep'
    BY <1>0, <2>2, <2>6, <2>7 DEF ToldInv, ToldOfSweep, NotBegun, LoopStages, AssetStages, AfterLoop, Ends
  <2>13. ToldOfEnd'
    BY <1>0, <2>2, <2>3, <2>4, <2>8 DEF ToldInv, ToldOfEnd, Counts, NotBegun, LoopStages, AssetStages, AfterLoop, Ends
  <2> QED
    BY <2>10, <2>11, <2>12, <2>13 DEF ToldInv
<1>8. CASE TellEnd
  <2> DEFINE e == EndEvent
  <2>1. Tells(e)
    BY <1>8, ToldBy
  <2>2. stage = "terminal" /\ stage' = "summary" /\ course' = course /\ totals' = totals
    BY <1>8 DEF TellEnd, Courses, Moves
  <2>3. e.kind = (IF course.stopped THEN "aborted" ELSE "completed") /\ e.detail = Counts
    BY DEF Event, EndEvent
  <2> HIDE DEF e
  <2>4. /\ Len(told') = Len(told) + 1 /\ told' # << >> /\ told'[Len(told')] = e
    BY <1>0, <2>1, AfterOne
  <2>14. \A i \in 1 .. Len(told) : told'[i] = told[i]
    BY <1>0, <2>1, AfterOne
  <2>5. Flying(told', Len(told')) = Flying(told, Len(told))
    BY <1>0, <2>1, <2>3, AfterOne DEF Landed
  <2>6. /\ Cardinality(SentIn(told', {"asset_started"})) = Cardinality(SentIn(told, {"asset_started"}))
        /\ Cardinality(SentIn(told', {"sweep_progress"})) = Cardinality(SentIn(told, {"sweep_progress"}))
    BY <1>0, <2>1, <2>3, AfterOne
  <2>7. Cardinality(PurgesIn(told')) = Cardinality(PurgesIn(told))
    BY <1>0, <2>1, <2>3, AfterOne DEF IsPurge
  <2>8. SentIn(told', EndKinds) = SentIn(told, EndKinds) \cup {Len(told')}
    BY <1>0, <2>1, <2>3, AfterOne DEF EndKinds
  <2>9. SentIn(told', {"asset_timings"}) = SentIn(told, {"asset_timings"})
        /\ \A i \in SentIn(told, {"asset_timings"}) : told'[i] = told[i]
    BY <1>0, <2>1, <2>3, TimingsKept
  <2>10. ToldSoFar'
    BY <1>0, <2>2, <2>3, <2>4 DEF ToldInv, ToldSoFar, OpenSweep, NotBegun, LoopStages, AssetStages, AfterLoop, Ends
  <2>11. ToldOfAssets'
    BY <1>0, <2>2, <2>5, <2>6, <2>9 DEF ToldInv, ToldOfAssets, NotBegun, LoopStages, AssetStages, AfterLoop, Ends
  <2>12. ToldOfSweep'
    BY <1>0, <2>2, <2>6, <2>7 DEF ToldInv, ToldOfSweep, NotBegun, LoopStages, AssetStages, AfterLoop, Ends
  <2>13. ToldOfEnd'
    BY <1>0, <2>2, <2>3, <2>4, <2>8 DEF ToldInv, ToldOfEnd, Counts, NotBegun, LoopStages, AssetStages, AfterLoop, Ends
  <2> QED
    BY <2>10, <2>11, <2>12, <2>13 DEF ToldInv
<1>9. CASE Chunks
  <2>0. PICK n \in ChunkCounts : Tells(Event("asset_chunked", course.at, n))
    BY <1>9, ToldBy
  <2> DEFINE e == Event("asset_chunked", course.at, n)
  <2>1. Tells(e)
    BY <2>0
  <2>2. /\ stage = "chunk" /\ stage' = "store"
        /\ course'.at = course.at /\ course'.purged = course.purged /\ course'.stopped = course.stopped
    BY <1>9 DEF Chunks, Courses, Moves
  <2>3. e.kind = "asset_chunked"
    BY DEF Event
  <2> HIDE DEF e
  <2>4. /\ Len(told') = Len(told) + 1 /\ told' # << >> /\ told'[Len(told')] = e
    BY <1>0, <2>1, AfterOne
  <2>14. \A i \in 1 .. Len(told) : told'[i] = told[i]
    BY <1>0, <2>1, AfterOne
  <2>5. Flying(told', Len(told')) = Flying(told, Len(told))
    BY <1>0, <2>1, <2>3, AfterOne DEF Landed
  <2>6. /\ Cardinality(SentIn(told', {"asset_started"})) = Cardinality(SentIn(told, {"asset_started"}))
        /\ Cardinality(SentIn(told', {"sweep_progress"})) = Cardinality(SentIn(told, {"sweep_progress"}))
    BY <1>0, <2>1, <2>3, AfterOne
  <2>7. Cardinality(PurgesIn(told')) = Cardinality(PurgesIn(told))
    BY <1>0, <2>1, <2>3, AfterOne DEF IsPurge
  <2>8. SentIn(told', EndKinds) = SentIn(told, EndKinds)
    BY <1>0, <2>1, <2>3, AfterOne DEF EndKinds
  <2>9. SentIn(told', {"asset_timings"}) = SentIn(told, {"asset_timings"})
        /\ \A i \in SentIn(told, {"asset_timings"}) : told'[i] = told[i]
    BY <1>0, <2>1, <2>3, TimingsKept
  <2>10. ToldSoFar'
    BY <1>0, <2>2, <2>3, <2>4 DEF ToldInv, ToldSoFar, OpenSweep, NotBegun, LoopStages, AssetStages, AfterLoop, Ends
  <2>11. ToldOfAssets'
    BY <1>0, <2>2, <2>5, <2>6, <2>9 DEF ToldInv, ToldOfAssets, NotBegun, LoopStages, AssetStages, AfterLoop, Ends
  <2>12. ToldOfSweep'
    BY <1>0, <2>2, <2>6, <2>7 DEF ToldInv, ToldOfSweep, NotBegun, LoopStages, AssetStages, AfterLoop, Ends
  <2>13. ToldOfEnd'
    BY <1>0, <2>2, <2>3, <2>4, <2>8 DEF ToldInv, ToldOfEnd, Counts, NotBegun, LoopStages, AssetStages, AfterLoop, Ends
  <2> QED
    BY <2>10, <2>11, <2>12, <2>13 DEF ToldInv
<1>10. CASE Embeds
  <2>0. PICK n \in Durations : Tells(Event("asset_timings", course.at, n))
    BY <1>10, ToldBy
  <2> DEFINE e == Event("asset_timings", course.at, n)
  <2>1. Tells(e)
    BY <2>0
  <2>2. /\ stage = "embed" /\ stage' = "tally"
        /\ course'.at = course.at /\ course'.purged = course.purged /\ course'.stopped = course.stopped
    BY <1>10 DEF Embeds, Courses, Item
  <2>3. e.kind = "asset_timings" /\ e.idx = course.at
    BY DEF Event
  <2> HIDE DEF e
  <2>4. /\ Len(told') = Len(told) + 1 /\ told' # << >> /\ told'[Len(told')] = e
    BY <1>0, <2>1, AfterOne
  <2>14. \A i \in 1 .. Len(told) : told'[i] = told[i]
    BY <1>0, <2>1, AfterOne
  <2>5. Flying(told', Len(told')) = Flying(told, Len(told))
    BY <1>0, <2>1, <2>3, AfterOne DEF Landed
  <2>6. /\ Cardinality(SentIn(told', {"asset_started"})) = Cardinality(SentIn(told, {"asset_started"}))
        /\ Cardinality(SentIn(told', {"sweep_progress"})) = Cardinality(SentIn(told, {"sweep_progress"}))
    BY <1>0, <2>1, <2>3, AfterOne
  <2>7. Cardinality(PurgesIn(told')) = Cardinality(PurgesIn(told))
    BY <1>0, <2>1, <2>3, AfterOne DEF IsPurge
  <2>8. SentIn(told', EndKinds) = SentIn(told, EndKinds)
    BY <1>0, <2>1, <2>3, AfterOne DEF EndKinds
  <2>9. \A i \in SentIn(told', {"asset_timings"}) :
          (i \in SentIn(told, {"asset_timings"}) /\ told'[i] = told[i]) \/ told'[i].idx = course.at
    BY <1>0, <2>1, <2>3, AfterOne
  <2>10. ToldSoFar'
    BY <1>0, <2>2, <2>3, <2>4 DEF ToldInv, ToldSoFar, OpenSweep, NotBegun, LoopStages, AssetStages, AfterLoop, Ends
  <2>11. ToldOfAssets'
    BY <1>0, <2>2, <2>5, <2>6, <2>9 DEF ToldInv, ToldOfAssets, NotBegun, LoopStages, AssetStages, AfterLoop, Ends
  <2>12. ToldOfSweep'
    BY <1>0, <2>2, <2>6, <2>7 DEF ToldInv, ToldOfSweep, NotBegun, LoopStages, AssetStages, AfterLoop, Ends
  <2>13. ToldOfEnd'
    BY <1>0, <2>2, <2>3, <2>4, <2>8 DEF ToldInv, ToldOfEnd, Counts, NotBegun, LoopStages, AssetStages, AfterLoop, Ends
  <2> QED
    BY <2>10, <2>11, <2>12, <2>13 DEF ToldInv
<1>11. CASE Examine
  <2>0. PICK d \in {"purged", "kept"} : /\ Tells(Event("sweep_progress", course.at + 1, d))
                                           /\ course'.purged = IF d = "purged" THEN course.purged + 1 ELSE course.purged
    BY <1>11, ToldBy
  <2> DEFINE e == Event("sweep_progress", course.at + 1, d)
  <2>1. Tells(e)
    BY <2>0
  <2>2. /\ stage = "sweep" /\ stage' = "sweep"
        /\ course'.at = course.at + 1 /\ course'.stopped = course.stopped
        /\ course'.purged = IF d = "purged" THEN course.purged + 1 ELSE course.purged
    BY <1>11, <2>0 DEF Examine, Courses
  <2>3. e.kind = "sweep_progress" /\ (IsPurge(e) <=> d = "purged")
    BY DEF Event, IsPurge
  <2> HIDE DEF e
  <2>4. /\ Len(told') = Len(told) + 1 /\ told' # << >> /\ told'[Len(told')] = e
    BY <1>0, <2>1, AfterOne
  <2>14. \A i \in 1 .. Len(told) : told'[i] = told[i]
    BY <1>0, <2>1, AfterOne
  <2>5. Flying(told', Len(told')) = Flying(told, Len(told))
    BY <1>0, <2>1, <2>3, AfterOne DEF Landed
  <2>6. /\ Cardinality(SentIn(told', {"asset_started"})) = Cardinality(SentIn(told, {"asset_started"}))
        /\ Cardinality(SentIn(told', {"sweep_progress"})) = Cardinality(SentIn(told, {"sweep_progress"})) + 1
    BY <1>0, <2>1, <2>3, AfterOne
  <2>7. Cardinality(PurgesIn(told')) = IF d = "purged" THEN Cardinality(PurgesIn(told)) + 1 ELSE Cardinality(PurgesIn(told))
    BY <1>0, <2>1, <2>3, AfterOne
  <2>8. SentIn(told', EndKinds) = SentIn(told, EndKinds)
    BY <1>0, <2>1, <2>3, AfterOne DEF EndKinds
  <2>9. SentIn(told', {"asset_timings"}) = SentIn(told, {"asset_timings"})
        /\ \A i \in SentIn(told, {"asset_timings"}) : told'[i] = told[i]
    BY <1>0, <2>1, <2>3, TimingsKept
  <2>10. ToldSoFar'
    <3>1. Len(told) >= 2 /\ Len(told') >= 2
      BY <1>a, <1>b, <2>2, <2>4
    <3>2. (told' # << >> /\ told'[Len(told')].kind \in OpenSweep)
      BY <2>3, <2>4 DEF OpenSweep
    <3>3. \A j \in 3 .. Len(told) : told[j].kind \in OpenSweep
      BY <1>c, <2>2
    <3>4. ASSUME NEW j \in 3 .. Len(told') PROVE told'[j].kind \in OpenSweep
      <4>1. j = Len(told') \/ (j \in 3 .. Len(told) /\ j \in 1 .. Len(told))
        BY <1>a, <2>4, LastOrBefore, Zenon
      <4> QED
        BY <2>14, <3>2, <3>3, <4>1
    <3>5. (stage' = "sweep") = (told' # << >> /\ told'[Len(told')].kind \in OpenSweep)
      BY <2>2, <3>2
    <3> QED
      BY <2>2, <3>1, <3>4, <3>5 DEF ToldSoFar, NotBegun, LoopStages, AssetStages, AfterLoop, Ends
  <2>11. ToldOfAssets'
    BY <1>0, <2>2, <2>5, <2>6, <2>9 DEF ToldInv, ToldOfAssets, NotBegun, LoopStages, AssetStages, AfterLoop, Ends
  <2>12. ToldOfSweep'
    BY <1>0, <2>2, <2>6, <2>7 DEF ToldInv, ToldOfSweep, NotBegun, LoopStages, AssetStages, AfterLoop, Ends
  <2>13. ToldOfEnd'
    BY <1>0, <2>2, <2>3, <2>4, <2>8 DEF ToldInv, ToldOfEnd, Counts, NotBegun, LoopStages, AssetStages, AfterLoop, Ends
  <2> QED
    BY <2>10, <2>11, <2>12, <2>13 DEF ToldInv
<1> QED
  BY <1>1, <1>2, <1>3, <1>4, <1>5, <1>6, <1>7, <1>8, <1>9, <1>10, <1>11

\* So does the step that tells of a page, or of an image.
LEMMA PageTold ==
  ASSUME ProgressTyped, Located, ToldInv, begun' = begun, course' \in Courses,
         PageRead \/ Vision, NEW d, NEW e, TellsTwo(d, e) \/ Tells(e),
         {d.kind, e.kind} \subseteq {"ocr_started", "ocr_finished", "asset_phase"}
  PROVE  ToldInv'
<1>0. /\ course.at \in Nat /\ course.purged \in Nat /\ course.stopped \in BOOLEAN
      /\ course \in Courses /\ Len(told) \in Nat /\ told \in Seq(Events)
  BY OneEventMore DEF ProgressTyped, Courses
<1>1. \/ stage = "pages" /\ stage' = "pages"
      \/ stage = "vision" /\ stage' = "chunk"
  BY DEF PageRead, Vision, Moves
<1>2. course'.at = course.at /\ course'.purged = course.purged /\ course'.stopped = course.stopped
  <2>1. CASE PageRead
    BY <1>0, <2>1 DEF PageRead, Courses
  <2>2. CASE Vision
    BY <2>2 DEF Vision
  <2> QED
    BY <2>1, <2>2
<1>3. /\ Len(told') > Len(told) /\ told' # << >> /\ told'[Len(told')] = e
      /\ Flying(told', Len(told')) = Flying(told, Len(told)) /\ PurgesIn(told') = PurgesIn(told)
  <2>1. CASE TellsTwo(d, e)
    BY <1>0, <2>1, AfterTwo
  <2>2. CASE Tells(e)
    BY <1>0, <2>2, AfterOne DEF Landed, IsPurge
  <2> QED
    BY <2>1, <2>2
<1>4. \A i \in 1 .. Len(told) : told'[i] = told[i]
  BY <1>0, AfterOne, AfterTwo
<1>5. ASSUME NEW kinds, kinds \cap {"ocr_started", "ocr_finished", "asset_phase"} = {}
      PROVE  SentIn(told', kinds) = SentIn(told, kinds) /\ SentIn(told, kinds) \in SUBSET (1 .. Len(told))
  <2>1. CASE TellsTwo(d, e)
    BY <1>0, <1>5, <2>1, AfterTwo
  <2>2. CASE Tells(e)
    <3>1. e \in Events /\ told' = Append(told, e) /\ e.kind \notin kinds
      BY <1>5, <2>2 DEF Tells
    <3>2. /\ SentIn(Append(told, e), kinds) = SentIn(told, kinds) \cup (IF e.kind \in kinds THEN {Len(told) + 1} ELSE {})
          /\ SentIn(told, kinds) \in SUBSET (1 .. Len(told))
      BY <1>0, <3>1, SentOneMore
    <3> QED
      BY <3>1, <3>2
  <2> QED
    BY <2>1, <2>2
<1>6. /\ SentIn(told', {"asset_started"}) = SentIn(told, {"asset_started"})
      /\ SentIn(told', {"sweep_progress"}) = SentIn(told, {"sweep_progress"})
      /\ SentIn(told', {"asset_timings"}) = SentIn(told, {"asset_timings"})
      /\ SentIn(told, {"asset_timings"}) \in SUBSET (1 .. Len(told))
      /\ SentIn(told', EndKinds) = SentIn(told, EndKinds)
  BY <1>5 DEF EndKinds
<1>7. \A i \in SentIn(told, {"asset_timings"}) : told'[i] = told[i]
  BY <1>4, <1>6
<1>8. ToldSoFar'
  <2>1. Len(told') >= 2
    <3>1. Len(told) >= 2
      BY <1>1 DEF ToldInv, ToldSoFar, NotBegun
    <3>2. Len(told') \in Nat
      BY <1>0, AfterOne, AfterTwo
    <3> QED
      BY <1>0, <1>3, <3>1, <3>2
  <2>2. ~(told'[Len(told')].kind \in OpenSweep)
    BY <1>3 DEF OpenSweep
  <2>3. (stage' = "sweep") = (told' # << >> /\ told'[Len(told')].kind \in OpenSweep)
    BY <1>1, <2>2
  <2> QED
    BY <1>1, <2>1, <2>3 DEF ToldSoFar, NotBegun
<1>9. ToldOfAssets'
  BY <1>1, <1>2, <1>3, <1>6, <1>7 DEF ToldInv, ToldOfAssets, NotBegun, LoopStages, AssetStages, AfterLoop, Ends
<1>10. ToldOfSweep'
  BY <1>1, <1>2, <1>3, <1>6 DEF ToldInv, ToldOfSweep, NotBegun, LoopStages, AssetStages, AfterLoop, Ends
<1>11. ToldOfEnd'
  BY <1>1, <1>6 DEF ToldInv, ToldOfEnd, Ends
<1> QED
  BY <1>8, <1>9, <1>10, <1>11 DEF ToldInv

\* A run that is killed has told nothing.
LEMMA KilledTold ==
  ASSUME Quit
  PROVE  ToldInv'
<1>1. told' = << >> /\ stage' = "killed" /\ course' = FreshCourse
  BY DEF Quit
<1>2. \A kinds : SentIn(told', kinds) = {}
  BY <1>1 DEF SentIn
<1>3. PurgesIn(told') = {} /\ Cardinality({}) = 0 /\ Len(told') = 0
  BY <1>1, <1>2, FS_EmptySet DEF PurgesIn
<1>4. Flying(told', Len(told')) = 0
  BY <1>1, NothingFlies
<1>5. course'.at = 0 /\ course'.purged = 0 /\ ~course'.stopped
  BY <1>1 DEF FreshCourse
<1> QED
  BY <1>1, <1>2, <1>3, <1>4, <1>5
  DEF ToldInv, ToldSoFar, ToldOfAssets, ToldOfSweep, ToldOfEnd, NotBegun, LoopStages, AssetStages, AfterLoop, Ends

\* Every step leaves the run where what it told says it is.
LEMMA ToldStep ==
  ASSUME ProgressTyped, Located, ToldInv, ProgressNext
  PROVE  ToldInv'
<1>1. begun' = begun /\ course' \in Courses /\ Located'
  BY StagesTyped, CourseTyped, LocatedStep DEF ProgressTyped
<1>2. CASE \/ OpenLog \/ ScanEnds \/ Examine \/ SweepEnds \/ AssetStarts \/ Chunks \/ Stores \/ Embeds \/ AssetEnds
           \/ TellEnd
  BY <1>1, <1>2, OneTold
<1>3. CASE SweepBegins
  <2>1. CASE stage' = "sweep"
    BY <1>1, <1>3, <2>1, OneTold
  <2>2. CASE stage' = "seed" /\ told' = told
    BY <1>1, <1>3, <2>2, SilentTold
  <2> QED
    BY <1>3, <2>1, <2>2, ToldBy
<1>4. CASE Vision
  <2> DEFINE e(p) == Event("asset_phase", course.at, p)
  <2>1. \A p : e(p).kind = "asset_phase"
    BY DEF Event
  <2> HIDE DEF e
  <2>2. CASE told' = told
    BY <1>1, <1>4, <2>2, SilentTold
  <2>3. CASE \E p : Tells(e(p))
    <3>1. PICK p : Tells(e(p))
      BY <2>3
    <3> QED
      BY <1>1, <1>4, <2>1, <3>1, PageTold
  <2>4. CASE TellsTwo(e("ocr"), e("caption"))
    BY <1>1, <1>4, <2>1, <2>4, PageTold
  <2> QED
    BY <1>4, <2>2, <2>3, <2>4, ToldBy DEF e
<1>5. CASE PageRead
  <2>1. PICK fate : TellsTwo(Event("ocr_started", course.page + 1, 0), Event("ocr_finished", course.page + 1, fate))
    BY <1>5, ToldBy
  <2> DEFINE d == Event("ocr_started", course.page + 1, 0)
             e == Event("ocr_finished", course.page + 1, fate)
  <2>2. d.kind = "ocr_started" /\ e.kind = "ocr_finished" /\ TellsTwo(d, e)
    BY <2>1 DEF Event
  <2> HIDE DEF d, e
  <2> QED
    BY <1>1, <1>5, <2>2, PageTold
<1>6. CASE Press
  <2>1. CASE Interrupted
    BY <1>1, <2>1, SilentTold DEF Interrupted
  <2> QED
    BY <1>6, <2>1, KilledTold DEF Press
<1>7. CASE \/ RunFails \/ SeedStopped \/ LoopStops \/ AssetPasses \/ CodeStored \/ AssetFails \/ PagesCancelled
           \/ PagesEnd \/ CreateJob \/ UpdateJob \/ FinishJob \/ RecordRun \/ Summarize \/ Handle \/ StdoutCloses \/ Join
  <2>1. told' = told
    BY <1>7 DEF RunFails, SeedStopped, LoopStops, AssetPasses, CodeStored, AssetFails, PagesCancelled, PagesEnd, CreateJob,
       UpdateJob, FinishJob, RecordRun, Summarize, Handle, StdoutCloses, Join
  <2> QED
    BY <1>1, <1>7, <2>1, SilentTold
<1> QED
  BY <1>2, <1>3, <1>4, <1>5, <1>6, <1>7 DEF ProgressNext

-----------------------------------------------------------------------------
(* Progress: what was told stays *)

\* What is told is added to.
Grown == told' = told \/ (\E e : Tells(e)) \/ (\E d, e : TellsTwo(d, e))

\* What was told stays where it is.
LEMMA GrownKeeps ==
  ASSUME told \in Seq(Events), Grown
  PROVE  /\ Len(told) \in Nat /\ Len(told') \in Nat /\ Len(told) <= Len(told') /\ told' \in Seq(Events)
         /\ \A i \in 1 .. Len(told) : told'[i] = told[i]
         /\ \A n \in 0 .. Len(told) : /\ \A kinds : SentUpTo(told', kinds, n) = SentUpTo(told, kinds, n)
                                      /\ Flying(told', n) = Flying(told, n)
<1>0. Len(told) \in Nat
  OBVIOUS
<1>1. CASE told' = told
  BY <1>0, <1>1
<1>2. CASE \E e : Tells(e)
  <2>1. PICK e \in Events : told' = Append(told, e)
    BY <1>2 DEF Tells
  <2> QED
    BY <1>0, <2>1, OneEventMore, SentUpToKept, FlyingKept
<1>3. CASE \E d, e : TellsTwo(d, e)
  <2>1. PICK d \in Events, e \in Events : told' = Append(Append(told, d), e)
    BY <1>3 DEF TellsTwo
  <2> DEFINE v == Append(told, d)
  <2>2. v \in Seq(Events) /\ Len(v) = Len(told) + 1 /\ \A i \in 1 .. Len(told) : v[i] = told[i]
    BY OneEventMore
  <2>3. \A n \in 0 .. Len(told) : /\ \A kinds : SentUpTo(v, kinds, n) = SentUpTo(told, kinds, n)
                                  /\ Flying(v, n) = Flying(told, n)
    BY SentUpToKept, FlyingKept
  <2>4. told' = Append(v, e)
    BY <2>1
  <2> HIDE DEF v
  <2>5. told' \in Seq(Events) /\ Len(told') = Len(v) + 1 /\ \A i \in 1 .. Len(v) : told'[i] = v[i]
    BY <2>2, <2>4, OneEventMore
  <2>6. \A n \in 0 .. Len(v) : (\A kinds : SentUpTo(told', kinds, n) = SentUpTo(v, kinds, n)) /\ Flying(told', n) = Flying(v, n)
    BY <2>2, <2>4, SentUpToKept, FlyingKept
  <2>7. \A n \in 0 .. Len(told) : n \in 0 .. Len(v)
    BY <1>0, <2>2
  <2>8. \A i \in 1 .. Len(told) : i \in 1 .. Len(v)
    BY <1>0, <2>2
  <2> QED
    BY <1>0, <2>2, <2>3, <2>5, <2>6, <2>7, <2>8
<1> QED
  BY <1>1, <1>2, <1>3 DEF Grown

\* Every step adds to what is told, or loses all of it.
LEMMA StepGrows ==
  ASSUME ProgressTyped, Located, ProgressNext
  PROVE  Quit \/ Grown
BY StepTells DEF Grown

\* An asset is finished, and tallied, by AssetEnds only.
LEMMA OnlyAssetEnds ==
  ASSUME ProgressTyped, Located, ProgressNext, ~AssetEnds, ~Quit
  PROVE  /\ SentIn(told', {"asset_finished"}) = SentIn(told, {"asset_finished"})
         /\ SentIn(told, {"asset_finished"}) \in SUBSET (1 .. Len(told))
         /\ totals'.items = totals.items /\ totals'.chunks = totals.chunks
         /\ totals'.count = totals.count /\ totals'.embedded = totals.embedded
<1>0. told \in Seq(Events) /\ totals \in Totals /\ Len(told) \in Nat
  BY DEF ProgressTyped
<1>1. SentIn(told, {"asset_finished"}) \in SUBSET (1 .. Len(told))
  BY <1>0 DEF SentIn
<1>2. OpenLog \/ ScanEnds \/ SweepBegins \/ Examine \/ SweepEnds \/ AssetStarts \/ Vision \/ PageRead \/ Chunks \/ Stores
      \/ Embeds \/ TellEnd => stage # "tally"
  BY DEF OpenLog, ScanEnds, SweepBegins, Examine, SweepEnds, AssetStarts, Vision, PageRead, Chunks, Stores, Embeds, TellEnd,
     Moves
<1>3. SentIn(told', {"asset_finished"}) = SentIn(told, {"asset_finished"})
  <2>1. CASE told' = told
    BY <2>1
  <2>2. CASE told' # told
    <3>1. stage # "tally"
      BY <1>2, <2>2, ToldElse
    <3>2. ASSUME NEW e, Tells(e), InTurn(e)
          PROVE  SentIn(told', {"asset_finished"}) = SentIn(told, {"asset_finished"})
      <4>1. e.kind # "asset_finished" /\ e \in Events /\ told' = Append(told, e)
        BY <3>1, <3>2 DEF InTurn, EndKinds, Tells
      <4>2. SentIn(Append(told, e), {"asset_finished"}) =
              SentIn(told, {"asset_finished"}) \cup (IF e.kind \in {"asset_finished"} THEN {Len(told) + 1} ELSE {})
        BY <1>0, <4>1, SentOneMore
      <4> QED
        BY <4>1, <4>2
    <3>3. ASSUME NEW d, NEW e, TellsTwo(d, e), {d.kind, e.kind} \subseteq {"ocr_started", "ocr_finished", "asset_phase"}
          PROVE  SentIn(told', {"asset_finished"}) = SentIn(told, {"asset_finished"})
      <4>1. {"asset_finished"} \cap {"ocr_started", "ocr_finished", "asset_phase"} = {}
        OBVIOUS
      <4> QED
        BY <1>0, <3>3, <4>1, AfterTwo
    <3> QED
      BY <2>2, <3>2, <3>3, StepTells
  <2> QED
    BY <2>1, <2>2
<1>4. /\ totals'.items = totals.items /\ totals'.chunks = totals.chunks
      /\ totals'.count = totals.count /\ totals'.embedded = totals.embedded
  <2>1. CASE PageRead
    BY <1>0, <2>1 DEF PageRead, Totals
  <2>2. CASE PagesEnd
    BY <1>0, <2>2 DEF PagesEnd, Totals
  <2>3. CASE \/ OpenLog \/ ScanEnds \/ RunFails \/ SweepBegins \/ Examine \/ SweepEnds \/ SeedStopped
             \/ LoopStops \/ AssetStarts \/ AssetPasses \/ CodeStored \/ AssetFails \/ Vision
             \/ PagesCancelled \/ Chunks \/ Stores \/ Embeds
    BY <2>3 DEF OpenLog, ScanEnds, RunFails, SweepBegins, Examine, SweepEnds, SeedStopped,
       LoopStops, AssetStarts, AssetPasses, CodeStored, AssetFails, Vision, PagesCancelled, Chunks, Stores, Embeds
  <2>4. CASE \/ CreateJob \/ UpdateJob \/ FinishJob \/ RecordRun \/ TellEnd \/ Summarize
             \/ Press \/ Handle \/ StdoutCloses \/ Join
    BY <2>4 DEF CreateJob, UpdateJob, FinishJob, RecordRun, TellEnd, Summarize, Press, Interrupted, Handle, StdoutCloses, Join
  <2> QED
    BY <2>1, <2>2, <2>3, <2>4 DEF ProgressNext
<1> QED
  BY <1>1, <1>3, <1>4

-----------------------------------------------------------------------------
(* Progress: the items *)

\* A sum of nothing.
LEMMA SumOfNone ==
  ASSUME NEW f, DOMAIN f = {}
  PROVE  Summed(f) = 0
<1> DEFINE F == SumsOf(f)
<1>1. IsFiniteSet(DOMAIN f)
  BY FS_EmptySet
<1>2. F = SumBody(f, DOMAIN f, F)
  BY <1>1, PartialSumsExist
<1>3. F[{}] = 0
  <2> HIDE DEF F
  <2> QED
    BY <1>2 DEF SumBody
<1> QED
  BY <1>3, TotalIsSum, Zenon DEF Summed

\* One element more is one more of its kind.
LEMMA CountOneMore ==
  ASSUME NEW S, NEW s \in Seq(S), NEW x \in S, NEW k
  PROVE  /\ CountIn(s, k) \in Nat
         /\ k = x => CountIn(Append(s, x), k) = CountIn(s, k) + 1
         /\ k # x => CountIn(Append(s, x), k) = CountIn(s, k)
<1> DEFINE u == Append(s, x)
           n == Len(s) + 1
           old == {i \in DOMAIN s : s[i] = k}
           new == {i \in DOMAIN u : u[i] = k}
<1>1. /\ Len(s) \in Nat /\ DOMAIN s = 1 .. Len(s) /\ DOMAIN u = 1 .. n
      /\ n \notin 1 .. Len(s) /\ 1 .. n = (1 .. Len(s)) \cup {n}
      /\ u[n] = x /\ \A i \in 1 .. Len(s) : u[i] = s[i]
  OBVIOUS
<1> HIDE DEF u, n
<1>2. old \in SUBSET (1 .. Len(s)) /\ n \notin old
  BY <1>1
<1>3. IsFiniteSet(old) /\ Cardinality(old) \in Nat
  BY <1>1, <1>2, Ranks, Zenon
<1>4. k = x => new = old \cup {n}
  BY <1>1
<1>5. k # x => new = old
  BY <1>1
<1> HIDE DEF old, new
<1>6. k = x => Cardinality(new) = Cardinality(old) + 1
  BY <1>2, <1>3, <1>4, FS_AddElement
<1> QED
  BY <1>3, <1>5, <1>6 DEF old, new, u, CountIn

\* What was finished is what is tallied, whatever else happens.
LEMMA ItemsKept ==
  ASSUME ProgressTyped, Located, ToldOfItems, CountsFit, ProgressNext, ~AssetEnds, ~Quit
  PROVE  ToldOfItems' /\ CountsFit'
<1>1. /\ Finishes' = Finishes /\ Finishes \in SUBSET (1 .. Len(told))
      /\ totals'.items = totals.items /\ totals'.chunks = totals.chunks
      /\ totals'.count = totals.count /\ totals'.embedded = totals.embedded
  BY OnlyAssetEnds DEF Finishes
<1>2. told \in Seq(Events) /\ begun' = begun /\ Len(told) \in Nat /\ Grown
  BY StepGrows, StagesTyped DEF ProgressTyped
<1>3. \A i \in Finishes : told'[i] = told[i]
  BY <1>1, <1>2, GrownKeeps
<1>4. \A i \in Finishes : SentUpTo(told', {"asset_finished"}, i) = SentUpTo(told, {"asset_finished"}, i)
  <2>1. \A i \in Finishes : i \in 0 .. Len(told)
    BY <1>1, <1>2
  <2> QED
    BY <1>2, <2>1, GrownKeeps
<1>5. [i \in Finishes' |-> told'[i].detail[2]] = [i \in Finishes |-> told[i].detail[2]]
  BY <1>1, <1>3
<1>6. ToldOfItems'
  <2> HIDE DEF Finishes
  <2>1. Cardinality(Finishes') = Len(totals'.items)
    BY <1>1 DEF ToldOfItems
  <2>2. \A i \in Finishes' : told'[i].detail[1] = totals'.items[Cardinality(SentUpTo(told', {"asset_finished"}, i))]
    BY <1>1, <1>3, <1>4 DEF ToldOfItems
  <2>3. totals'.chunks = Summed([i \in Finishes' |-> told'[i].detail[2]])
    BY <1>1, <1>5 DEF ToldOfItems
  <2> QED
    BY <2>1, <2>2, <2>3 DEF ToldOfItems
<1>7. CountsFit'
  BY <1>1, <1>2 DEF CountsFit
<1> QED
  BY <1>6, <1>7

\* A run that is killed has finished nothing.
LEMMA ItemsKilled ==
  ASSUME Quit
  PROVE  ToldOfItems' /\ CountsFit'
<1>1. told' = << >> /\ totals' = FreshTotals
  BY DEF Quit
<1>2. /\ totals'.items = << >> /\ totals'.chunks = 0 /\ totals'.embedded = 0 /\ \A k \in ItemKinds : totals'.count[k] = 0
  BY <1>1 DEF FreshTotals
<1>3. Finishes' = {}
  BY <1>1 DEF Finishes, SentIn
<1>4. Cardinality({}) = 0 /\ Len(<< >>) = 0
  BY FS_EmptySet
<1>5. Summed([i \in Finishes' |-> told'[i].detail[2]]) = 0
  BY <1>3, SumOfNone
<1>6. ToldOfItems'
  <2>1. Cardinality(Finishes') = Len(totals'.items)
    BY <1>2, <1>3, <1>4
  <2>2. \A i \in Finishes' : told'[i].detail[1] = totals'.items[Cardinality(SentUpTo(told', {"asset_finished"}, i))]
    BY <1>3
  <2>3. totals'.chunks = Summed([i \in Finishes' |-> told'[i].detail[2]])
    BY <1>2, <1>5, Zenon
  <2> QED
    BY <2>1, <2>2, <2>3 DEF ToldOfItems
<1>7. \A k : CountIn(totals'.items, k) = 0
  <2>1. \A k : {i \in DOMAIN totals'.items : totals'.items[i] = k} = {}
    BY <1>2
  <2> QED
    BY <1>4, <2>1 DEF CountIn
<1> QED
  BY <1>2, <1>4, <1>6, <1>7 DEF CountsFit

\* An asset that ends is finished and tallied alike.
LEMMA ItemsAdded ==
  ASSUME ProgressTyped, Located, AllFollow(begun, told), ToldOfItems, CountsFit, AssetEnds
  PROVE  ToldOfItems' /\ CountsFit'
<1> DEFINE k == course.item
           n == course.chunks
           e == Event("asset_finished", course.at, <<k, n>>)
           N == Len(told) + 1
           M == Len(totals.items)
<1>0. /\ told \in Seq(Events) /\ Len(told) \in Nat /\ n \in Nat /\ k \in ItemKinds /\ (k \notin {"new", "updated"} => n = 0)
      /\ totals.items \in Seq(ItemKinds) /\ totals.count \in [ItemKinds -> Nat] /\ totals.chunks \in Nat
      /\ totals.embedded \in Nat /\ begun' = begun /\ totals \in Totals
  <2>1. stage = "tally" /\ begun' = begun
    BY DEF AssetEnds, Moves, Quietly
  <2>2. k \in ItemKinds /\ (k \notin {"new", "updated"} => n = 0)
    BY <2>1 DEF Located
  <2>3. told \in Seq(Events) /\ Len(told) \in Nat /\ n \in Nat /\ totals \in Totals
    BY DEF ProgressTyped, Courses
  <2>4. /\ totals.items \in Seq(ItemKinds) /\ totals.count \in [ItemKinds -> Nat] /\ totals.chunks \in Nat
        /\ totals.embedded \in Nat
    BY <2>3 DEF Totals
  <2> QED
    BY <2>1, <2>2, <2>3, <2>4
<1>1. Tells(e)
  BY ToldBy
<1>2. e.kind = "asset_finished" /\ e.detail = <<k, n>> /\ e \in Events /\ told' = Append(told, e)
  BY <1>1 DEF Event, Tells
<1>3. /\ totals'.items = Append(totals.items, k) /\ totals'.count = [totals.count EXCEPT ![k] = @ + 1]
      /\ totals'.chunks = totals.chunks + n
      /\ totals'.embedded = IF begun.embeds THEN totals.embedded + n ELSE totals.embedded
  BY <1>0 DEF AssetEnds, Tallied, Totals
<1> HIDE DEF e
<1>4. /\ told'[N] = e /\ \A i \in 1 .. Len(told) : told'[i] = told[i]
  BY <1>0, <1>2, OneEventMore
<1>5. /\ Finishes \in SUBSET (1 .. Len(told)) /\ IsFiniteSet(Finishes) /\ Cardinality(Finishes) \in Nat
      /\ Finishes' = Finishes \cup {N} /\ Cardinality(Finishes') = Cardinality(Finishes) + 1
  <2>1. /\ SentIn(Append(told, e), {"asset_finished"}) =
             SentIn(told, {"asset_finished"}) \cup (IF e.kind \in {"asset_finished"} THEN {N} ELSE {})
        /\ SentIn(told, {"asset_finished"}) \in SUBSET (1 .. Len(told))
        /\ IsFiniteSet(SentIn(told, {"asset_finished"})) /\ Cardinality(SentIn(told, {"asset_finished"})) \in Nat
        /\ Cardinality(SentIn(Append(told, e), {"asset_finished"})) =
             Cardinality(SentIn(told, {"asset_finished"})) + (IF e.kind \in {"asset_finished"} THEN 1 ELSE 0)
    BY <1>0, <1>2, SentOneMore
  <2> QED
    BY <1>2, <2>1 DEF Finishes
<1>6. N \notin Finishes /\ Finishes = Finishes' \ {N} /\ IsFiniteSet(Finishes')
  <2>1. N \notin Finishes
    BY <1>0, <1>5
  <2> QED
    BY <1>5, <2>1, FS_AddElement
<1>7. M \in Nat /\ Len(totals'.items) = M + 1 /\ totals'.items[M + 1] = k
      /\ \A r \in 1 .. M : totals'.items[r] = totals.items[r]
  BY <1>0, <1>3
<1>8. Cardinality(Finishes) = M
  BY DEF ToldOfItems
<1>9. ASSUME NEW i \in Finishes
      PROVE  /\ SentUpTo(told', {"asset_finished"}, i) = SentUpTo(told, {"asset_finished"}, i)
             /\ Cardinality(SentUpTo(told, {"asset_finished"}, i)) \in 1 .. M
  <2>1. i \in 0 .. Len(told)
    BY <1>0, <1>5
  <2>2. SentUpTo(told', {"asset_finished"}, i) = SentUpTo(told, {"asset_finished"}, i)
    BY <1>0, <1>2, <2>1, SentUpToKept
  <2>3. i \in SentUpTo(told, {"asset_finished"}, i) /\ SentUpTo(told, {"asset_finished"}, i) \in SUBSET Finishes
    BY <1>0, <1>5 DEF SentUpTo, Finishes
  <2>4. Cardinality(SentUpTo(told, {"asset_finished"}, i)) \in Nat /\ Cardinality(SentUpTo(told, {"asset_finished"}, i)) <= M
    BY <1>5, <1>8, <2>3, FS_Subset, FS_CardinalityType
  <2>5. Cardinality(SentUpTo(told, {"asset_finished"}, i)) # 0
    BY <1>5, <2>3, FS_Subset, FS_EmptySet
  <2> QED
    BY <2>2, <2>4, <2>5, <1>7
<1>10. SentUpTo(told', {"asset_finished"}, N) = Finishes'
  <2>1. told' \in Seq(Events) /\ Len(told') = N
    BY <1>0, <1>2, OneEventMore
  <2> QED
    BY <2>1 DEF SentUpTo, Finishes, SentIn
<1>11. ASSUME NEW i \in Finishes
       PROVE  told[i].detail[1] \in ItemKinds /\ told[i].detail[2] \in Nat
  <2>1. i \in DOMAIN told /\ told[i].kind = "asset_finished"
    BY DEF Finishes, SentIn
  <2>2. told[i].detail \in ItemKinds \X Nat
    BY <2>1 DEF AllFollow, Follows, FollowsAsset
  <2> QED
    BY <2>2
<1> HIDE DEF Finishes, N, M
<1>12. \A i \in Finishes : told'[i] = told[i]
  BY <1>4, <1>5
<1>13. ASSUME NEW i \in Finishes'
       PROVE  told'[i].detail[1] = totals'.items[Cardinality(SentUpTo(told', {"asset_finished"}, i))]
  <2>1. CASE i \in Finishes
    BY <1>7, <1>9, <1>12, <2>1 DEF ToldOfItems
  <2>2. CASE i = N
    <3>1. told'[N].detail[1] = k
      BY <1>2, <1>4
    <3>2. totals'.items[Cardinality(Finishes')] = k
      BY <1>5, <1>7, <1>8
    <3> QED
      BY <1>10, <2>2, <3>1, <3>2
  <2> QED
    BY <1>5, <2>1, <2>2
<1>14. totals'.chunks = Summed([i \in Finishes' |-> told'[i].detail[2]])
  <2> DEFINE f == [i \in Finishes |-> told[i].detail[2]]
             g == [i \in Finishes' |-> told'[i].detail[2]]
  <2>1. DOMAIN f = Finishes /\ DOMAIN g = Finishes' /\ N \in Finishes'
    BY <1>5
  <2>2. g[N] = n
    <3>1. told'[N].detail[2] = n
      BY <1>2, <1>4
    <3> QED
      BY <2>1, <3>1
  <2>3. \A i \in Finishes : f[i] = g[i] /\ f[i] \in Nat
    BY <1>5, <1>11, <1>12
  <2>4. \A i \in Finishes' : g[i] \in Nat
    BY <1>0, <1>5, <2>2, <2>3
  <2>5. totals.chunks = Summed(f)
    BY DEF ToldOfItems
  <2> HIDE DEF f, g
  <2>6. Summed(g) = Summed(f) + g[N]
    BY <1>6, <2>1, <2>3, <2>4, SumOneMore DEF Summed
  <2>7. Summed(g) = totals.chunks + n
    BY <2>2, <2>5, <2>6, Zenon
  <2> QED
    BY <1>3, <2>7, Zenon DEF g
<1>15. ToldOfItems'
  <2>1. Cardinality(Finishes') = Len(totals'.items)
    BY <1>5, <1>7, <1>8
  <2> QED
    BY <1>13, <1>14, <2>1 DEF ToldOfItems
<1>16. CountsFit'
  <2>1. ASSUME NEW c \in ItemKinds
        PROVE  totals'.count[c] = CountIn(totals'.items, c)
    <3>1. totals.count[c] = CountIn(totals.items, c)
      BY DEF CountsFit
    <3>2. totals'.count[c] = IF c = k THEN totals.count[c] + 1 ELSE totals.count[c]
      BY <1>0, <1>3
    <3>3. /\ CountIn(totals.items, c) \in Nat
          /\ c = k => CountIn(Append(totals.items, k), c) = CountIn(totals.items, c) + 1
          /\ c # k => CountIn(Append(totals.items, k), c) = CountIn(totals.items, c)
      BY <1>0, CountOneMore
    <3> QED
      BY <1>3, <3>1, <3>2, <3>3
  <2>2. totals'.embedded = IF begun'.embeds THEN totals'.chunks ELSE 0
    BY <1>0, <1>3 DEF CountsFit
  <2> QED
    BY <2>1, <2>2 DEF CountsFit
<1> QED
  BY <1>15, <1>16

\* What was finished is what is tallied.
LEMMA ItemsStep ==
  ASSUME ProgressTyped, Located, AllFollow(begun, told), ToldOfItems, CountsFit, ProgressNext
  PROVE  ToldOfItems' /\ CountsFit'
BY ItemsKept, ItemsKilled, ItemsAdded

-----------------------------------------------------------------------------
(* Progress: the display *)

BoardOf(live, label, len, pos, clock, path, scan, named, timed, slowest) ==
  [live |-> live, label |-> label, len |-> len, pos |-> pos, clock |-> clock, path |-> path, scan |-> scan,
   named |-> named, timed |-> timed, slowest |-> slowest]

\* What each event makes of the board.
LEMMA DrawnAs ==
  ASSUME NEW b, BoardIs(b), NEW e \in Events
  PROVE  /\ e.kind = "scan_started" =>
              Draw(b, e) = BoardOf(TRUE, "scan", b.len, b.pos, b.clock, b.path, b.scan, b.named, b.timed, b.slowest)
         /\ e.kind = "scan_completed" =>
              Draw(b, e) = BoardOf(b.live, "ingest", e.idx, 0, b.clock, b.path, e.idx, b.named, b.timed, b.slowest)
         /\ e.kind = "sweep_started" =>
              Draw(b, e) = BoardOf(b.live, "sweep", e.idx, 0, b.clock, b.path, b.scan, b.named, b.timed, b.slowest)
         /\ e.kind = "sweep_progress" =>
              Draw(b, e) = BoardOf(b.live, b.label, b.len, e.idx, b.clock, b.path, b.scan, b.named, b.timed, b.slowest)
         /\ e.kind = "sweep_completed" =>
              Draw(b, e) = BoardOf(b.live, "ingest", b.scan, 0, b.clock, b.path, b.scan, b.named, b.timed, b.slowest)
         /\ e.kind = "asset_started" =>
              Draw(b, e) = BoardOf(b.live, b.label, b.len, e.idx - 1, TRUE, e.idx, b.scan, b.named \cup {e.idx}, b.timed,
                                   b.slowest)
         /\ e.kind = "asset_finished" =>
              Draw(b, e) = BoardOf(b.live, b.label, b.len, b.pos, FALSE, 0, b.scan, b.named, b.timed, b.slowest)
         /\ e.kind = "asset_timings" /\ e.idx \in b.named =>
              Draw(b, e) = BoardOf(b.live, b.label, b.len, b.pos, b.clock, b.path, b.scan, b.named,
                                   Append(b.timed, <<e.idx, e.detail>>), b.slowest)
         /\ e.kind = "asset_timings" /\ e.idx \notin b.named => Draw(b, e) = b
         /\ e.kind \in WithinKinds \ {"asset_timings"} => Draw(b, e) = b
         /\ e.kind = "completed" =>
              Draw(b, e) = BoardOf(FALSE, b.label, b.len, b.pos, FALSE, b.path, b.scan, b.named, b.timed, Slowest(b.timed))
         /\ e.kind = "aborted" =>
              Draw(b, e) = BoardOf(FALSE, b.label, b.len, b.pos, b.clock, b.path, b.scan, b.named, b.timed, b.slowest)
<1>1. b = BoardOf(b.live, b.label, b.len, b.pos, b.clock, b.path, b.scan, b.named, b.timed, b.slowest)
  BY DEF BoardIs, BoardOf
<1>2. CASE e.kind = "scan_started"
  <2> DEFINE yes == TRUE
             c == [b EXCEPT !.live = yes]
  <2>1. Draw(b, e) = [c EXCEPT !.label = "scan"]
    BY <1>2 DEF Draw, DrawScan
  <2> HIDE DEF yes, c
  <2>2. c = BoardOf(yes, b.label, b.len, b.pos, b.clock, b.path, b.scan, b.named, b.timed, b.slowest)
    BY <1>1 DEF BoardOf, c
  <2>3. [c EXCEPT !.label = "scan"] = BoardOf(yes, "scan", b.len, b.pos, b.clock, b.path, b.scan, b.named, b.timed,
          b.slowest)
    BY <2>2 DEF BoardOf
  <2> QED
    BY <1>2, <2>1, <2>3 DEF WithinKinds, yes
<1>3. CASE e.kind = "scan_completed"
  <2> DEFINE c == [b EXCEPT !.scan = e.idx]
             d == [c EXCEPT !.label = "ingest"]
             f == [d EXCEPT !.len = e.idx]
  <2>1. Draw(b, e) = [f EXCEPT !.pos = 0]
    BY <1>3 DEF Draw, DrawScan, Dressed
  <2> HIDE DEF c, d, f
  <2>2. c = BoardOf(b.live, b.label, b.len, b.pos, b.clock, b.path, e.idx, b.named, b.timed, b.slowest)
    BY <1>1 DEF BoardOf, c
  <2>3. d = BoardOf(b.live, "ingest", b.len, b.pos, b.clock, b.path, e.idx, b.named, b.timed, b.slowest)
    BY <2>2 DEF BoardOf, d
  <2>4. f = BoardOf(b.live, "ingest", e.idx, b.pos, b.clock, b.path, e.idx, b.named, b.timed, b.slowest)
    BY <2>3 DEF BoardOf, f
  <2>5. [f EXCEPT !.pos = 0] = BoardOf(b.live, "ingest", e.idx, 0, b.clock, b.path, e.idx, b.named, b.timed,
          b.slowest)
    BY <2>4 DEF BoardOf
  <2> QED
    BY <1>3, <2>1, <2>5 DEF WithinKinds
<1>4. CASE e.kind = "sweep_started"
  <2> DEFINE c == [b EXCEPT !.label = "sweep"]
             d == [c EXCEPT !.len = e.idx]
  <2>1. Draw(b, e) = [d EXCEPT !.pos = 0]
    BY <1>4 DEF Draw, DrawSweep
  <2> HIDE DEF c, d
  <2>2. c = BoardOf(b.live, "sweep", b.len, b.pos, b.clock, b.path, b.scan, b.named, b.timed, b.slowest)
    BY <1>1 DEF BoardOf, c
  <2>3. d = BoardOf(b.live, "sweep", e.idx, b.pos, b.clock, b.path, b.scan, b.named, b.timed, b.slowest)
    BY <2>2 DEF BoardOf, d
  <2>4. [d EXCEPT !.pos = 0] = BoardOf(b.live, "sweep", e.idx, 0, b.clock, b.path, b.scan, b.named, b.timed,
          b.slowest)
    BY <2>3 DEF BoardOf
  <2> QED
    BY <1>4, <2>1, <2>4 DEF WithinKinds
<1>5. CASE e.kind = "sweep_progress"
  <2>1. Draw(b, e) = [b EXCEPT !.pos = e.idx]
    BY <1>5 DEF Draw, DrawSweep
  <2>2. [b EXCEPT !.pos = e.idx] = BoardOf(b.live, b.label, b.len, e.idx, b.clock, b.path, b.scan, b.named, b.timed,
          b.slowest)
    BY <1>1 DEF BoardOf
  <2> QED
    BY <1>5, <2>1, <2>2 DEF WithinKinds
<1>6. CASE e.kind = "sweep_completed"
  <2> DEFINE c == [b EXCEPT !.label = "ingest"]
             d == [c EXCEPT !.len = b.scan]
  <2>1. Draw(b, e) = [d EXCEPT !.pos = 0]
    BY <1>6 DEF Draw, DrawSweep, Dressed
  <2> HIDE DEF c, d
  <2>2. c = BoardOf(b.live, "ingest", b.len, b.pos, b.clock, b.path, b.scan, b.named, b.timed, b.slowest)
    BY <1>1 DEF BoardOf, c
  <2>3. d = BoardOf(b.live, "ingest", b.scan, b.pos, b.clock, b.path, b.scan, b.named, b.timed, b.slowest)
    BY <2>2 DEF BoardOf, d
  <2>4. [d EXCEPT !.pos = 0] = BoardOf(b.live, "ingest", b.scan, 0, b.clock, b.path, b.scan, b.named, b.timed,
          b.slowest)
    BY <2>3 DEF BoardOf
  <2> QED
    BY <1>6, <2>1, <2>4 DEF WithinKinds
<1>7. CASE e.kind = "asset_started"
  <2> DEFINE more == b.named \cup {e.idx}
             yes == TRUE
             c == [b EXCEPT !.path = e.idx]
             d == [c EXCEPT !.named = more]
             f == [d EXCEPT !.clock = yes]
  <2>1. Draw(b, e) = [f EXCEPT !.pos = e.idx - 1]
    BY <1>7 DEF Draw, DrawAsset
  <2> HIDE DEF more, yes, c, d, f
  <2>2. c = BoardOf(b.live, b.label, b.len, b.pos, b.clock, e.idx, b.scan, b.named, b.timed, b.slowest)
    BY <1>1 DEF BoardOf, c
  <2>3. d = BoardOf(b.live, b.label, b.len, b.pos, b.clock, e.idx, b.scan, more, b.timed, b.slowest)
    BY <2>2 DEF BoardOf, d
  <2>4. f = BoardOf(b.live, b.label, b.len, b.pos, yes, e.idx, b.scan, more, b.timed, b.slowest)
    BY <2>3 DEF BoardOf, f
  <2>5. [f EXCEPT !.pos = e.idx - 1] = BoardOf(b.live, b.label, b.len, e.idx - 1, yes, e.idx, b.scan, more, b.timed,
          b.slowest)
    BY <2>4 DEF BoardOf
  <2> QED
    BY <1>7, <2>1, <2>5 DEF WithinKinds, more, yes
<1>8. CASE e.kind = "asset_finished"
  <2> DEFINE no == FALSE
             c == [b EXCEPT !.clock = no]
  <2>1. Draw(b, e) = [c EXCEPT !.path = 0]
    BY <1>8 DEF Draw, DrawAsset
  <2> HIDE DEF no, c
  <2>2. c = BoardOf(b.live, b.label, b.len, b.pos, no, b.path, b.scan, b.named, b.timed, b.slowest)
    BY <1>1 DEF BoardOf, c
  <2>3. [c EXCEPT !.path = 0] = BoardOf(b.live, b.label, b.len, b.pos, no, 0, b.scan, b.named, b.timed, b.slowest)
    BY <2>2 DEF BoardOf
  <2> QED
    BY <1>8, <2>1, <2>3 DEF WithinKinds, no
<1>9. CASE e.kind = "asset_timings" /\ e.idx \in b.named
  <2> DEFINE more == Append(b.timed, <<e.idx, e.detail>>)
  <2>1. Draw(b, e) = [b EXCEPT !.timed = more]
    BY <1>9 DEF Draw, DrawAsset
  <2> HIDE DEF more
  <2>2. [b EXCEPT !.timed = more] = BoardOf(b.live, b.label, b.len, b.pos, b.clock, b.path, b.scan, b.named, more,
          b.slowest)
    BY <1>1 DEF BoardOf
  <2> QED
    BY <1>9, <2>1, <2>2 DEF WithinKinds, more
<1>10. CASE e.kind = "completed"
  <2> DEFINE no == FALSE
             worst == Slowest(b.timed)
             c == [b EXCEPT !.live = no]
             d == [c EXCEPT !.clock = no]
  <2>1. Draw(b, e) = [d EXCEPT !.slowest = worst]
    BY <1>10 DEF Draw, DrawEnd
  <2> HIDE DEF no, worst, c, d
  <2>2. c = BoardOf(no, b.label, b.len, b.pos, b.clock, b.path, b.scan, b.named, b.timed, b.slowest)
    BY <1>1 DEF BoardOf, c
  <2>3. d = BoardOf(no, b.label, b.len, b.pos, no, b.path, b.scan, b.named, b.timed, b.slowest)
    BY <2>2 DEF BoardOf, d
  <2>4. [d EXCEPT !.slowest = worst] = BoardOf(no, b.label, b.len, b.pos, no, b.path, b.scan, b.named, b.timed, worst)
    BY <2>3 DEF BoardOf
  <2> QED
    BY <1>10, <2>1, <2>4 DEF WithinKinds, no, worst
<1>11. CASE e.kind = "aborted"
  <2> DEFINE no == FALSE
  <2>1. Draw(b, e) = [b EXCEPT !.live = no]
    BY <1>11 DEF Draw, DrawEnd
  <2> HIDE DEF no
  <2>2. [b EXCEPT !.live = no] = BoardOf(no, b.label, b.len, b.pos, b.clock, b.path, b.scan, b.named, b.timed,
          b.slowest)
    BY <1>1 DEF BoardOf
  <2> QED
    BY <1>11, <2>1, <2>2 DEF WithinKinds, no
<1>12. CASE e.kind = "asset_timings" /\ e.idx \notin b.named
  BY <1>12 DEF Draw, DrawAsset, WithinKinds
<1>13. CASE e.kind \in WithinKinds \ {"asset_timings"}
  BY <1>13 DEF Draw, DrawAsset, WithinKinds
<1>14. e.kind \in EventKinds
  BY DEF Events
<1> QED
  BY <1>2, <1>3, <1>4, <1>5, <1>6, <1>7, <1>8, <1>9, <1>10, <1>11, <1>12, <1>13, <1>14
  DEF EventKinds, SweepKinds, EndKinds, WithinKinds

\* What is known of the event that comes after the first n.
LEMMA NextEvent ==
  ASSUME NEW b \in Begins, NEW t \in Seq(Events), AllFollow(b, t), NEW n \in 0 .. Len(t), n < Len(t),
         NEW e, e = t[n + 1]
  PROVE  /\ e \in Events /\ n + 1 \in 1 .. Len(t) /\ Flying(t, n) \in Nat
         /\ Flying(t, n + 1) = Landed(e, Flying(t, n))
         /\ (e.kind = "scan_started") = (n = 0) /\ (e.kind = "scan_completed") = (n = 1)
         /\ e.kind = "scan_completed" => e.idx = Len(b.assets)
         /\ e.kind = "sweep_started" => e.idx = b.stored
         /\ e.kind = "sweep_progress" => e.idx <= b.stored
         /\ n > 0 => (t[n].kind \in OpenSweep) = (e.kind \in {"sweep_progress", "sweep_completed"})
         /\ e.kind \in SweepKinds \cup {"scan_started", "scan_completed"} => Flying(t, n) = 0
         /\ e.kind = "asset_started" => e.idx \in 1 .. Len(b.assets)
         /\ e.kind \in WithinKinds => Flying(t, n) # 0
         /\ e.kind = "asset_timings" =>
              e.idx = Flying(t, n) /\ \A j \in SentUpTo(t, {"asset_timings"}, n) : t[j].idx # e.idx
         /\ n > 0 => t[n].kind \notin EndKinds
<1>0. Len(t) \in Nat /\ n \in Nat /\ n + 1 \in 1 .. Len(t) /\ \A i \in 1 .. Len(t) : t[i] \in Events
      /\ DOMAIN t = 1 .. Len(t)
  OBVIOUS
<1>1. PICK m \in 1 .. Len(t) : m = n + 1 /\ m - 1 = n
  BY <1>0
<1>2. Follows(b, t, n, e)
  BY <1>0, <1>1 DEF AllFollow
<1>3. Flying(t, m) = Landed(e, Flying(t, n))
  BY <1>1, FlyingAfter DEF Landed
<1>4. Flying(t, n) \in Nat
  <2>1. n \in 0 .. Len(t) /\ e \in Events
    BY <1>0, <1>1
  <2> QED
    BY <2>1, FlyingKept
<1>5. FollowsScan(b, n, e) /\ FollowsSweep(b, t, n, e) /\ FollowsAsset(b, t, n, e) /\ FollowsEnd(t, n, e)
  BY <1>2 DEF Follows
<1>6. ASSUME e.kind \in SweepKinds \cup {"scan_started", "scan_completed"} PROVE Flying(t, n) = 0
  <2>1. \A j \in 1 .. n : t[j].kind \notin Turns
    <3> SUFFICES ASSUME NEW j \in 1 .. n PROVE t[j].kind \notin Turns
      OBVIOUS
    <3>1. FollowsScan(b, j - 1, t[j]) /\ j \in Nat
      <4>1. j \in DOMAIN t
        BY <1>0
      <4> QED
        BY <4>1 DEF AllFollow, Follows
    <3>2. CASE j = 1
      BY <3>1, <3>2 DEF FollowsScan, Turns
    <3>3. CASE j = 2
      BY <3>1, <3>3 DEF FollowsScan, Turns
    <3>4. CASE j > 2
      <4>1. j \in 3 .. n /\ n # 0 /\ n # 1
        BY <1>0, <3>4
      <4>2. e.kind \in SweepKinds
        BY <1>5, <1>6, <4>1 DEF FollowsScan
      <4> QED
        BY <1>5, <4>1, <4>2 DEF FollowsSweep, Turns, OpenSweep
    <3> QED
      BY <3>1, <3>2, <3>3, <3>4
  <2>2. SentUpTo(t, Turns, n) = {}
    BY <1>0, <2>1 DEF SentUpTo, SentIn
  <2> QED
    BY <2>2 DEF Flying
<1>7. n > 0 => t[n].kind \notin EndKinds
  <2>1. SentUpTo(t, EndKinds, n) = {}
    BY <1>5 DEF FollowsEnd
  <2>2. n > 0 => n \in DOMAIN t
    BY <1>0
  <2> QED
    BY <1>0, <2>1, <2>2 DEF SentUpTo, SentIn
<1>8. /\ (e.kind = "scan_started") = (n = 0) /\ (e.kind = "scan_completed") = (n = 1)
      /\ e.kind = "scan_completed" => e.idx = Len(b.assets)
  BY <1>5 DEF FollowsScan
<1>9. /\ e.kind = "sweep_started" => e.idx = b.stored
      /\ e.kind = "sweep_progress" => e.idx <= b.stored
      /\ n > 0 => (t[n].kind \in OpenSweep) = (e.kind \in {"sweep_progress", "sweep_completed"})
  BY <1>5 DEF FollowsSweep
<1>10. /\ e.kind = "asset_started" => e.idx \in 1 .. Len(b.assets)
       /\ e.kind \in WithinKinds => Flying(t, n) # 0
       /\ e.kind = "asset_timings" =>
            e.idx = Flying(t, n) /\ \A j \in SentUpTo(t, {"asset_timings"}, n) : t[j].idx # e.idx
  BY <1>5 DEF FollowsAsset
<1>11. e \in Events
  BY <1>0
<1> QED
  BY <1>0, <1>1, <1>3, <1>4, <1>6, <1>7, <1>8, <1>9, <1>10, <1>11, Zenon

\* The board stays a board.
LEMMA DrawnIs ==
  ASSUME NEW b, BoardIs(b), NEW e \in Events
  PROVE  BoardIs(Draw(b, e))
<1>0. /\ e.idx \in Nat /\ e.detail \in Details /\ e.kind \in EventKinds
      /\ b.live \in BOOLEAN /\ b.label \in {"", "scan", "sweep", "ingest", "closed"} /\ b.len \in Nat /\ b.pos \in Int
      /\ b.clock \in BOOLEAN /\ b.path \in Nat /\ b.scan \in Nat /\ b.named \in SUBSET Nat /\ b.timed \in Seq(Nat \X Details)
  BY DEF BoardIs, Events
<1>1. ASSUME NEW live \in BOOLEAN, NEW label \in {"", "scan", "sweep", "ingest", "closed"}, NEW len \in Nat, NEW pos \in Int,
             NEW clock \in BOOLEAN, NEW path \in Nat, NEW scan \in Nat, NEW named \in SUBSET Nat,
             NEW timed \in Seq(Nat \X Details), NEW slowest
      PROVE  BoardIs(BoardOf(live, label, len, pos, clock, path, scan, named, timed, slowest))
  BY DEF BoardIs, BoardOf
<1>2. e.idx - 1 \in Int /\ 0 \in Int /\ 0 \in Nat /\ e.idx \in Int /\ b.named \cup {e.idx} \in SUBSET Nat
  <2>1. \A n \in Nat : n - 1 \in Int /\ n \in Int
    OBVIOUS
  <2>2. b.named \cup {e.idx} \in SUBSET Nat
    BY <1>0
  <2> QED
    BY <1>0, <2>1, <2>2
<1>a. Append(b.timed, <<e.idx, e.detail>>) \in Seq(Nat \X Details)
  <2> DEFINE p == <<e.idx, e.detail>>
             S == Nat \X Details
  <2>1. p \in S /\ b.timed \in Seq(S)
    BY <1>0
  <2> HIDE DEF p, S
  <2>2. Append(b.timed, p) \in Seq(S)
    BY <2>1
  <2> QED
    BY <2>2 DEF p, S
<1>3. TRUE \in BOOLEAN /\ FALSE \in BOOLEAN /\ "scan" \in {"", "scan", "sweep", "ingest", "closed"}
      /\ "sweep" \in {"", "scan", "sweep", "ingest", "closed"} /\ "ingest" \in {"", "scan", "sweep", "ingest", "closed"}
  OBVIOUS
<1>4. CASE e.kind = "scan_started"
  <2>1. Draw(b, e) = BoardOf(TRUE, "scan", b.len, b.pos, b.clock, b.path, b.scan, b.named, b.timed, b.slowest)
    BY <1>4, DrawnAs
  <2>2. BoardIs(BoardOf(TRUE, "scan", b.len, b.pos, b.clock, b.path, b.scan, b.named, b.timed, b.slowest))
    BY <1>0, <1>1, <1>2, <1>3, <1>a, ZenonT(60)
  <2> QED
    BY <2>1, <2>2
<1>5. CASE e.kind = "scan_completed"
  <2>1. Draw(b, e) = BoardOf(b.live, "ingest", e.idx, 0, b.clock, b.path, e.idx, b.named, b.timed, b.slowest)
    BY <1>5, DrawnAs
  <2>2. BoardIs(BoardOf(b.live, "ingest", e.idx, 0, b.clock, b.path, e.idx, b.named, b.timed, b.slowest))
    BY <1>0, <1>1, <1>2, <1>3, <1>a, ZenonT(60)
  <2> QED
    BY <2>1, <2>2
<1>6. CASE e.kind = "sweep_started"
  <2>1. Draw(b, e) = BoardOf(b.live, "sweep", e.idx, 0, b.clock, b.path, b.scan, b.named, b.timed, b.slowest)
    BY <1>6, DrawnAs
  <2>2. BoardIs(BoardOf(b.live, "sweep", e.idx, 0, b.clock, b.path, b.scan, b.named, b.timed, b.slowest))
    BY <1>0, <1>1, <1>2, <1>3, <1>a, ZenonT(60)
  <2> QED
    BY <2>1, <2>2
<1>7. CASE e.kind = "sweep_progress"
  <2>1. Draw(b, e) = BoardOf(b.live, b.label, b.len, e.idx, b.clock, b.path, b.scan, b.named, b.timed, b.slowest)
    BY <1>7, DrawnAs
  <2>2. BoardIs(BoardOf(b.live, b.label, b.len, e.idx, b.clock, b.path, b.scan, b.named, b.timed, b.slowest))
    BY <1>0, <1>1, <1>2, <1>3, <1>a, ZenonT(60)
  <2> QED
    BY <2>1, <2>2
<1>8. CASE e.kind = "sweep_completed"
  <2>1. Draw(b, e) = BoardOf(b.live, "ingest", b.scan, 0, b.clock, b.path, b.scan, b.named, b.timed, b.slowest)
    BY <1>8, DrawnAs
  <2>2. BoardIs(BoardOf(b.live, "ingest", b.scan, 0, b.clock, b.path, b.scan, b.named, b.timed, b.slowest))
    BY <1>0, <1>1, <1>2, <1>3, <1>a, ZenonT(60)
  <2> QED
    BY <2>1, <2>2
<1>9. CASE e.kind = "asset_started"
  <2>1. Draw(b, e) = BoardOf(b.live, b.label, b.len, e.idx - 1, TRUE, e.idx, b.scan, b.named \cup {e.idx}, b.timed,
          b.slowest)
    BY <1>9, DrawnAs
  <2>2. BoardIs(BoardOf(b.live, b.label, b.len, e.idx - 1, TRUE, e.idx, b.scan, b.named \cup {e.idx}, b.timed,
          b.slowest))
    BY <1>0, <1>1, <1>2, <1>3, <1>a, ZenonT(60)
  <2> QED
    BY <2>1, <2>2
<1>10. CASE e.kind = "asset_finished"
  <2>1. Draw(b, e) = BoardOf(b.live, b.label, b.len, b.pos, FALSE, 0, b.scan, b.named, b.timed, b.slowest)
    BY <1>10, DrawnAs
  <2>2. BoardIs(BoardOf(b.live, b.label, b.len, b.pos, FALSE, 0, b.scan, b.named, b.timed, b.slowest))
    BY <1>0, <1>1, <1>2, <1>3, <1>a, ZenonT(60)
  <2> QED
    BY <2>1, <2>2
<1>11. CASE e.kind = "asset_timings" /\ e.idx \in b.named
  <2>1. Draw(b, e) = BoardOf(b.live, b.label, b.len, b.pos, b.clock, b.path, b.scan, b.named, Append(b.timed,
          <<e.idx, e.detail>>), b.slowest)
    BY <1>11, DrawnAs
  <2>2. BoardIs(BoardOf(b.live, b.label, b.len, b.pos, b.clock, b.path, b.scan, b.named, Append(b.timed, <<e.idx,
          e.detail>>), b.slowest))
    BY <1>0, <1>1, <1>2, <1>3, <1>a, ZenonT(60)
  <2> QED
    BY <2>1, <2>2
<1>12. CASE e.kind = "completed"
  <2>1. Draw(b, e) = BoardOf(FALSE, b.label, b.len, b.pos, FALSE, b.path, b.scan, b.named, b.timed, Slowest(b.timed))
    BY <1>12, DrawnAs
  <2>2. BoardIs(BoardOf(FALSE, b.label, b.len, b.pos, FALSE, b.path, b.scan, b.named, b.timed, Slowest(b.timed)))
    BY <1>0, <1>1, <1>2, <1>3, <1>a, ZenonT(60)
  <2> QED
    BY <2>1, <2>2
<1>13. CASE e.kind = "aborted"
  <2>1. Draw(b, e) = BoardOf(FALSE, b.label, b.len, b.pos, b.clock, b.path, b.scan, b.named, b.timed, b.slowest)
    BY <1>13, DrawnAs
  <2>2. BoardIs(BoardOf(FALSE, b.label, b.len, b.pos, b.clock, b.path, b.scan, b.named, b.timed, b.slowest))
    BY <1>0, <1>1, <1>2, <1>3, <1>a, ZenonT(60)
  <2> QED
    BY <2>1, <2>2
<1>14. CASE (e.kind = "asset_timings" /\ e.idx \notin b.named) \/ e.kind \in WithinKinds \ {"asset_timings"}
  BY <1>14, DrawnAs
<1> QED
  BY <1>0, <1>4, <1>5, <1>6, <1>7, <1>8, <1>9, <1>10, <1>11, <1>12, <1>13, <1>14
  DEF EventKinds, SweepKinds, EndKinds, WithinKinds

\* What the start of an asset changes of the display.
LEMMA StartDrawn ==
  ASSUME NEW b, BoardIs(b), NEW e \in Events, e.kind = "asset_started"
  PROVE  /\ Draw(b, e).live = b.live /\ Draw(b, e).label = b.label /\ Draw(b, e).len = b.len
         /\ Draw(b, e).pos = e.idx - 1 /\ Draw(b, e).clock = TRUE /\ Draw(b, e).path = e.idx
         /\ Draw(b, e).scan = b.scan /\ Draw(b, e).named = b.named \cup {e.idx}
         /\ Draw(b, e).timed = b.timed /\ Draw(b, e).slowest = b.slowest
<1>1. Draw(b, e) = BoardOf(b.live, b.label, b.len, e.idx - 1, TRUE, e.idx, b.scan, b.named \cup {e.idx}, b.timed,
                           b.slowest)
  BY DrawnAs
<1> QED
  BY <1>1 DEF BoardOf

\* The bar goes on showing the phase of the last event.
LEMMA BarDrawn ==
  ASSUME NEW g \in Begins, NEW b, BoardIs(b), NEW n \in Nat, NEW f \in Nat, NEW d, NEW e \in Events,
         n = 0 => b = FreshBoard /\ f = 0,
         n > 0 /\ b.live => BarIs(g, b, n, d, f),
         (e.kind = "scan_started") = (n = 0), (e.kind = "scan_completed") = (n = 1),
         e.kind = "scan_completed" => e.idx = Len(g.assets),
         e.kind = "sweep_started" => e.idx = g.stored,
         e.kind = "sweep_progress" => e.idx <= g.stored,
         n > 0 => (d.kind \in OpenSweep) = (e.kind \in {"sweep_progress", "sweep_completed"}),
         e.kind \in SweepKinds \cup {"scan_started", "scan_completed"} => f = 0,
         e.kind = "asset_started" => e.idx \in 1 .. Len(g.assets),
         Draw(b, e).live
  PROVE  BarIs(g, Draw(b, e), n + 1, e, Landed(e, f))
<1> DEFINE L == Len(g.assets)
           k == e.kind
<1>0. /\ L \in Nat /\ g.stored \in Nat /\ e.idx \in Nat /\ k \in EventKinds
      /\ b.pos \in Int /\ b.len \in Nat /\ b.scan \in Nat
  BY BegunIs DEF Events, BoardIs
<1>1. k \notin EndKinds
  BY DrawnAs DEF BoardOf, EndKinds
<1>2. CASE k = "scan_started"
  <2>1. b = FreshBoard /\ f = 0 /\ n = 0
    BY <1>2
  <2>2. Draw(b, e) = BoardOf(TRUE, "scan", b.len, b.pos, b.clock, b.path, b.scan, b.named, b.timed, b.slowest)
    BY <1>2, DrawnAs
  <2>3. b.len = 0 /\ b.pos = 0 /\ b.clock = FALSE /\ b.path = 0 /\ b.scan = 0
    BY <2>1 DEF FreshBoard
  <2>4. Landed(e, f) = 0
    BY <1>2, <2>1 DEF Landed
  <2>5. /\ Draw(b, e).label = "scan" /\ Draw(b, e).len = 0 /\ Draw(b, e).pos = 0
        /\ Draw(b, e).path = 0 /\ Draw(b, e).scan = 0 /\ Draw(b, e).clock = (0 # 0)
    <3>1. /\ Draw(b, e).label = "scan" /\ Draw(b, e).len = b.len /\ Draw(b, e).pos = b.pos
          /\ Draw(b, e).path = b.path /\ Draw(b, e).scan = b.scan
      BY <2>2 DEF BoardOf
    <3>2. Draw(b, e).clock = b.clock
      BY <2>2 DEF BoardOf
    <3>3. b.clock = (0 # 0)
      BY <2>3
    <3> QED
      BY <2>3, <3>1, <3>2, <3>3
  <2>6. n + 1 = 1
    BY <2>1
  <2> HIDE DEF k
  <2> QED
    BY <1>1, <2>4, <2>5, <2>6 DEF BarIs, k
<1>3. ASSUME k # "scan_started"
      PROVE  n > 0 /\ b.live /\ BarIs(g, b, n, d, f)
  <2>1. n > 0
    BY <1>3
  <2>2. b.live
    BY <1>0, <1>1, <1>3, DrawnAs DEF EventKinds, SweepKinds, EndKinds, WithinKinds, BoardOf
  <2> QED
    BY <2>1, <2>2
<1>4. CASE k = "scan_completed"
  <2>1. n = 1 /\ f = 0 /\ e.idx = L /\ b.clock = FALSE /\ b.path = 0
    BY <1>3, <1>4 DEF BarIs
  <2>2. Draw(b, e) = BoardOf(b.live, "ingest", e.idx, 0, b.clock, b.path, e.idx, b.named, b.timed, b.slowest)
    BY <1>4, DrawnAs
  <2>4. Landed(e, f) = 0 /\ k \notin OpenSweep
    BY <1>4, <2>1 DEF Landed, OpenSweep
  <2> QED
    BY <1>0, <1>1, <2>1, <2>2, <2>4 DEF BarIs, BoardOf
<1>5. ASSUME k \notin {"scan_started", "scan_completed"}
      PROVE  n > 1 /\ b.scan = L
  BY <1>3, <1>5 DEF BarIs
<1>6. CASE k = "sweep_started"
  <2>1. n > 1 /\ f = 0 /\ e.idx = g.stored /\ b.clock = FALSE /\ b.path = 0 /\ b.scan = L
    BY <1>3, <1>5, <1>6 DEF BarIs, SweepKinds
  <2>2. Draw(b, e) = BoardOf(b.live, "sweep", e.idx, 0, b.clock, b.path, b.scan, b.named, b.timed, b.slowest)
    BY <1>6, DrawnAs
  <2>4. Landed(e, f) = 0 /\ k \in OpenSweep
    BY <1>6, <2>1 DEF Landed, OpenSweep
  <2> QED
    BY <1>0, <1>1, <2>1, <2>2, <2>4 DEF BarIs, BoardOf
<1>7. CASE k = "sweep_progress"
  <2>1. n > 1 /\ f = 0 /\ e.idx <= g.stored /\ b.clock = FALSE /\ b.path = 0 /\ b.scan = L /\ d.kind \in OpenSweep
    BY <1>3, <1>5, <1>7 DEF BarIs, SweepKinds
  <2>2. Draw(b, e) = BoardOf(b.live, b.label, b.len, e.idx, b.clock, b.path, b.scan, b.named, b.timed, b.slowest)
    BY <1>7, DrawnAs
  <2>3. b.label = "sweep" /\ b.len = g.stored
    BY <1>3, <1>7, <2>1 DEF BarIs
  <2>4. Landed(e, f) = 0 /\ k \in OpenSweep
    BY <1>7, <2>1 DEF Landed, OpenSweep
  <2> QED
    BY <1>0, <1>1, <2>1, <2>2, <2>3, <2>4 DEF BarIs, BoardOf
<1>8. CASE k = "sweep_completed"
  <2>1. n > 1 /\ f = 0 /\ b.clock = FALSE /\ b.path = 0 /\ b.scan = L
    BY <1>3, <1>5, <1>8 DEF BarIs, SweepKinds
  <2>2. Draw(b, e) = BoardOf(b.live, "ingest", b.scan, 0, b.clock, b.path, b.scan, b.named, b.timed, b.slowest)
    BY <1>8, DrawnAs
  <2>4. Landed(e, f) = 0 /\ k \notin OpenSweep
    BY <1>8, <2>1 DEF Landed, OpenSweep
  <2> QED
    BY <1>0, <1>1, <2>1, <2>2, <2>4 DEF BarIs, BoardOf
<1>9. ASSUME k \notin SweepKinds \cup {"scan_started", "scan_completed"}
      PROVE  /\ n > 1 /\ k \notin OpenSweep /\ b.scan = L /\ b.label = "ingest" /\ b.len = L /\ b.pos <= L
             /\ b.clock = (f # 0) /\ b.path = f /\ (f # 0 => b.pos = f - 1)
  <2>1. n > 1 /\ b.scan = L /\ BarIs(g, b, n, d, f)
    BY <1>3, <1>5, <1>9
  <2>2. d.kind \notin OpenSweep /\ k \notin OpenSweep
    BY <1>9, <2>1 DEF SweepKinds, OpenSweep
  <2> QED
    BY <2>1, <2>2 DEF BarIs
<1>10. CASE k = "asset_started"
  <2>2. Landed(e, f) = e.idx /\ e.idx \in 1 .. L /\ k \notin SweepKinds \cup {"scan_started", "scan_completed"}
    BY <1>10 DEF Landed, SweepKinds
  <2>3. e.idx # 0 /\ e.idx - 1 <= L
    BY <1>0, <2>2
  <2>4. /\ Draw(b, e).label = b.label /\ Draw(b, e).len = b.len /\ Draw(b, e).pos = e.idx - 1
        /\ Draw(b, e).clock = TRUE /\ Draw(b, e).path = e.idx /\ Draw(b, e).scan = b.scan
    BY <1>10, StartDrawn
  <2>5. /\ b.label = "ingest" /\ b.len = L /\ b.scan = L /\ n > 1 /\ k \notin OpenSweep
    BY <1>9, <2>2
  <2>6. n + 1 > 1 /\ n + 1 # 1 /\ Draw(b, e).clock = (e.idx # 0)
    <3>1. n + 1 > 1 /\ n + 1 # 1
      BY <2>5
    <3>2. (e.idx # 0) = TRUE
      BY <2>3
    <3> QED
      BY <2>4, <3>1, <3>2
  <2>7. Draw(b, e).pos <= Draw(b, e).len
    BY <2>3, <2>4, <2>5
  <2> QED
    BY <1>1, <2>2, <2>4, <2>5, <2>6, <2>7 DEF BarIs
<1>11. CASE k = "asset_finished"
  <2>1. Draw(b, e) = BoardOf(b.live, b.label, b.len, b.pos, FALSE, 0, b.scan, b.named, b.timed, b.slowest)
    BY <1>11, DrawnAs
  <2>2. Landed(e, f) = 0 /\ k \notin SweepKinds \cup {"scan_started", "scan_completed"}
    BY <1>11 DEF Landed, SweepKinds
  <2>3. /\ Draw(b, e).label = b.label /\ Draw(b, e).len = b.len /\ Draw(b, e).pos = b.pos
        /\ Draw(b, e).path = 0 /\ Draw(b, e).scan = b.scan
    BY <2>1 DEF BoardOf
  <2>4. Draw(b, e).clock = (0 # 0)
    <3>1. Draw(b, e).clock = FALSE
      BY <2>1 DEF BoardOf
    <3> QED
      BY <3>1
  <2> QED
    BY <1>0, <1>1, <1>9, <2>2, <2>3, <2>4 DEF BarIs
<1>12. CASE k \in WithinKinds
  <2>1. \/ Draw(b, e) = b
        \/ Draw(b, e) = BoardOf(b.live, b.label, b.len, b.pos, b.clock, b.path, b.scan, b.named,
                                Append(b.timed, <<e.idx, e.detail>>), b.slowest)
    BY <1>12, DrawnAs
  <2>2. Landed(e, f) = f /\ k \notin SweepKinds \cup {"scan_started", "scan_completed"}
    BY <1>12 DEF Landed, SweepKinds, WithinKinds
  <2>3. CASE Draw(b, e) = b
    BY <1>0, <1>1, <1>9, <2>2, <2>3 DEF BarIs
  <2>4. CASE Draw(b, e) # b
    BY <1>0, <1>1, <1>9, <2>1, <2>2, <2>4 DEF BarIs, BoardOf
  <2> QED
    BY <2>3, <2>4
<1> QED
  BY <1>0, <1>1, <1>2, <1>4, <1>6, <1>7, <1>8, <1>10, <1>11, <1>12 DEF EventKinds, SweepKinds

\* The times, and the names, after one event more.
LEMMA TimesDrawn ==
  ASSUME NEW b, BoardIs(b), NEW t \in Seq(Events), NEW n \in 0 .. Len(t), n < Len(t), NEW e \in Events, e = t[n + 1],
         NEW f, f # 0 => f \in b.named,
         e.kind = "asset_timings" => e.idx = f /\ f # 0 /\ \A j \in SentUpTo(t, {"asset_timings"}, n) : t[j].idx # e.idx,
         TimesAre(b.timed, t, n)
  PROVE  TimesAre(Draw(b, e).timed, t, n + 1) /\ (Landed(e, f) # 0 => Landed(e, f) \in Draw(b, e).named)
<1> DEFINE K == {"asset_timings"}
           S == SentUpTo(t, K, n)
           T == SentUpTo(t, K, n + 1)
           d == b.timed
<1>0. n + 1 \in 1 .. Len(t) /\ d \in Seq(Nat \X Details) /\ e.kind \in EventKinds
  <2>1. n + 1 \in 1 .. Len(t)
    OBVIOUS
  <2>2. d \in Seq(Nat \X Details)
    BY DEF BoardIs
  <2>3. e.kind \in EventKinds
    BY DEF Events
  <2> QED
    BY <2>1, <2>2, <2>3
<1>1. /\ T = S \cup (IF e.kind \in K THEN {n + 1} ELSE {})
      /\ Cardinality(T) = Cardinality(S) + (IF e.kind \in K THEN 1 ELSE 0) /\ Cardinality(S) \in Nat
  <2>1. PICK m \in 1 .. Len(t) : m = n + 1 /\ m - 1 = n
    BY <1>0
  <2> HIDE DEF K
  <2>2. /\ SentUpTo(t, K, m) = SentUpTo(t, K, m - 1) \cup (IF t[m].kind \in K THEN {m} ELSE {})
        /\ Cardinality(SentUpTo(t, K, m)) = Cardinality(SentUpTo(t, K, m - 1)) + (IF t[m].kind \in K THEN 1 ELSE 0)
        /\ Cardinality(SentUpTo(t, K, m - 1)) \in Nat
    BY SentUpToMore
  <2> QED
    BY <2>1, <2>2
<1>2. /\ Len(d) = Cardinality(S)
      /\ {d[k] : k \in 1 .. Len(d)} = {<<t[i].idx, t[i].detail>> : i \in S}
      /\ \A k, l \in 1 .. Len(d) : d[k][1] = d[l][1] => k = l
  BY DEF TimesAre
<1>3. CASE e.kind # "asset_timings"
  <2>1. Draw(b, e).timed = d
    BY <1>0, <1>3, DrawnAs DEF EventKinds, SweepKinds, EndKinds, WithinKinds, BoardOf
  <2>2. T = S
    BY <1>1, <1>3
  <2>3. Landed(e, f) # 0 => Landed(e, f) \in Draw(b, e).named
    <3>1. CASE e.kind = "asset_started"
      BY <3>1, StartDrawn DEF Landed
    <3>2. CASE e.kind # "asset_started"
      <4>1. Draw(b, e).named = b.named
        BY <1>0, <1>3, <3>2, DrawnAs DEF EventKinds, SweepKinds, EndKinds, WithinKinds, BoardOf
      <4> QED
        BY <3>2, <4>1 DEF Landed
    <3> QED
      BY <3>1, <3>2
  <2> HIDE DEF d, S, T
  <2>4. TimesAre(d, t, n + 1)
    BY <1>2, <2>2 DEF TimesAre, S, T
  <2> QED
    BY <2>1, <2>3, <2>4
<1>4. CASE e.kind = "asset_timings"
  <2> DEFINE p == <<e.idx, e.detail>>
             u == Append(d, p)
  <2>1. e.idx \in b.named
    BY <1>4
  <2>2. Draw(b, e).timed = u /\ Draw(b, e).named = b.named
    BY <1>4, <2>1, DrawnAs DEF BoardOf
  <2>3. /\ Len(d) \in Nat /\ Len(u) = Len(d) + 1 /\ u[Len(d) + 1] = p /\ \A k \in 1 .. Len(d) : u[k] = d[k]
    <3> DEFINE Q == Nat \X Details
    <3>1. d \in Seq(Q) /\ p \in Q
      BY <1>0 DEF Events
    <3> HIDE DEF Q, p
    <3> QED
      BY <3>1
  <2>4. T = S \cup {n + 1} /\ Cardinality(T) = Cardinality(S) + 1
    BY <1>1, <1>4
  <2>5. \A k \in 1 .. Len(d) : d[k][1] # e.idx
    <3> SUFFICES ASSUME NEW k \in 1 .. Len(d) PROVE d[k][1] # e.idx
      OBVIOUS
    <3>1. PICK i \in S : d[k] = <<t[i].idx, t[i].detail>>
      BY <1>2
    <3> QED
      BY <1>4, <3>1
  <2> HIDE DEF u, d, S, T
  <2>6. Len(u) = Cardinality(T)
    BY <1>2, <2>3, <2>4
  <2>7. {u[k] : k \in 1 .. Len(u)} = {<<t[i].idx, t[i].detail>> : i \in T}
    <3>1. 1 .. Len(u) = (1 .. Len(d)) \cup {Len(d) + 1}
      BY <2>3
    <3>2. {u[k] : k \in 1 .. Len(u)} = {d[k] : k \in 1 .. Len(d)} \cup {p}
      <4>1. {u[k] : k \in 1 .. Len(d)} = {d[k] : k \in 1 .. Len(d)}
        BY <2>3
      <4>2. {u[k] : k \in (1 .. Len(d)) \cup {Len(d) + 1}} = {u[k] : k \in 1 .. Len(d)} \cup {u[Len(d) + 1]}
        OBVIOUS
      <4> QED
        BY <2>3, <3>1, <4>1, <4>2
    <3>3. {<<t[i].idx, t[i].detail>> : i \in T} = {<<t[i].idx, t[i].detail>> : i \in S} \cup {<<t[n + 1].idx, t[n + 1].detail>>}
      BY <2>4
    <3> QED
      BY <1>2, <3>2, <3>3
  <2>8. \A k, l \in 1 .. Len(u) : u[k][1] = u[l][1] => k = l
    <3>1. \A k \in 1 .. Len(u) : k \in 1 .. Len(d) \/ k = Len(d) + 1
      BY <2>3
    <3>2. p[1] = e.idx
      OBVIOUS
    <3> HIDE DEF p
    <3> SUFFICES ASSUME NEW k \in 1 .. Len(u), NEW l \in 1 .. Len(u), u[k][1] = u[l][1] PROVE k = l
      OBVIOUS
    <3>3. CASE k \in 1 .. Len(d) /\ l \in 1 .. Len(d)
      BY <1>2, <2>3, <3>3
    <3>4. CASE k \in 1 .. Len(d) /\ l = Len(d) + 1
      BY <2>3, <2>5, <3>2, <3>4
    <3>5. CASE l \in 1 .. Len(d) /\ k = Len(d) + 1
      BY <2>3, <2>5, <3>2, <3>5
    <3> QED
      BY <3>1, <3>3, <3>4, <3>5
  <2>9. TimesAre(u, t, n + 1)
    BY <2>6, <2>7, <2>8 DEF TimesAre, T
  <2> QED
    BY <1>4, <2>1, <2>2, <2>9 DEF Landed
<1> QED
  BY <1>3, <1>4

\* The display handles one event more.
LEMMA BoardHandles ==
  ASSUME ProgressTyped, AllFollow(begun, told), BoardFits, ~begun.json, Handle
  PROVE  BoardIs(board') /\ BoardFits'
<1> DEFINE n == shown
           e == told[n + 1]
           f == Flying(told, n)
           d == told[n]
<1>1. /\ n \in 0 .. Len(told) /\ n < Len(told) /\ n \in Nat /\ n + 1 # 0 /\ n + 1 > 0
      /\ shown' = n + 1 /\ board' = Draw(board, e) /\ told' = told /\ begun' = begun
      /\ BoardIs(board) /\ begun \in Begins /\ told \in Seq(Events)
  <2>1. /\ n \in 0 .. Len(told) /\ n < Len(told) /\ shown' = n + 1 /\ told' = told /\ begun' = begun
        /\ BoardIs(board) /\ begun \in Begins /\ told \in Seq(Events)
    BY DEF ProgressTyped, Handle, Listening
  <2>2. board' = Draw(board, e)
    BY DEF Handle
  <2>3. n \in Nat /\ n + 1 # 0 /\ n + 1 > 0
    BY <2>1
  <2> QED
    BY <2>1, <2>2, <2>3
<1>2. /\ n = 0 => board = FreshBoard
      /\ n > 0 /\ board.live => BarIs(begun, board, n, d, f)
      /\ f # 0 => f \in board.named
      /\ TimesAre(board.timed, told, n)
  BY DEF BoardFits, BarFits, TimesFit
<1>3. /\ e \in Events /\ n + 1 \in 1 .. Len(told) /\ f \in Nat
      /\ Flying(told, n + 1) = Landed(e, f)
      /\ (e.kind = "scan_started") = (n = 0) /\ (e.kind = "scan_completed") = (n = 1)
      /\ e.kind = "scan_completed" => e.idx = Len(begun.assets)
      /\ e.kind = "sweep_started" => e.idx = begun.stored
      /\ e.kind = "sweep_progress" => e.idx <= begun.stored
      /\ n > 0 => (d.kind \in OpenSweep) = (e.kind \in {"sweep_progress", "sweep_completed"})
      /\ e.kind \in SweepKinds \cup {"scan_started", "scan_completed"} => f = 0
      /\ e.kind = "asset_started" => e.idx \in 1 .. Len(begun.assets)
      /\ e.kind \in WithinKinds => f # 0
      /\ e.kind = "asset_timings" =>
           e.idx = f /\ \A j \in SentUpTo(told, {"asset_timings"}, n) : told[j].idx # e.idx
  <2> HIDE DEF n, e, f, d
  <2>1. e = told[n + 1] /\ f = Flying(told, n) /\ d = told[n]
    BY DEF e, f, d
  <2> QED
    BY <1>1, <2>1, NextEvent
<1> HIDE DEF n, e, f, d
<1>4. BoardIs(board')
  BY <1>1, <1>3, DrawnIs
<1>5. n = 0 => f = 0
  BY <1>3
<1>6. Draw(board, e).live => BarIs(begun, Draw(board, e), n + 1, e, Landed(e, f))
  <2> SUFFICES ASSUME Draw(board, e).live PROVE BarIs(begun, Draw(board, e), n + 1, e, Landed(e, f))
    OBVIOUS
  <2>1. BoardIs(board) /\ begun \in Begins /\ n \in Nat /\ f \in Nat /\ e \in Events
    BY <1>1, <1>3
  <2> QED
    BY <1>2, <1>3, <1>5, <2>1, BarDrawn
<1>7. TimesAre(Draw(board, e).timed, told, n + 1) /\ (Landed(e, f) # 0 => Landed(e, f) \in Draw(board, e).named)
  <2>1. e = told[n + 1]
    BY DEF e
  <2>2. e.kind = "asset_timings" => e.idx = f /\ f # 0 /\ \A j \in SentUpTo(told, {"asset_timings"}, n) : told[j].idx # e.idx
    BY <1>3 DEF WithinKinds
  <2> QED
    BY <1>1, <1>2, <1>3, <2>1, <2>2, TimesDrawn
<1>8. e.kind = "completed" => Draw(board, e).slowest = Slowest(Draw(board, e).timed)
  BY <1>1, <1>3, DrawnAs DEF BoardOf
<1>9. told'[shown'] = e /\ Flying(told', shown') = Landed(e, f)
  BY <1>1, <1>3 DEF e
<1>10. /\ shown' = 0 => board' = FreshBoard
       /\ shown' > 0 /\ board'.live => BarFits'
  <2>1. BarFits' = BarIs(begun', board', shown', told'[shown'], Flying(told', shown'))
    BY DEF BarFits, BarIs
  <2> QED
    BY <1>1, <1>6, <1>9, <2>1
<1>11. TimesFit'
  <2>1. TimesFit' = TimesAre(board'.timed, told', shown')
    BY DEF TimesFit, TimesAre
  <2> QED
    BY <1>1, <1>7, <2>1
<1>12. /\ Flying(told', shown') # 0 => Flying(told', shown') \in board'.named
       /\ told'[shown'].kind = "completed" => board'.slowest = Slowest(board'.timed)
  BY <1>1, <1>7, <1>8, <1>9
<1> QED
  BY <1>4, <1>10, <1>11, <1>12 DEF BoardFits

\* Events are told that the display has yet to see.
LEMMA BoardWaits ==
  ASSUME ProgressTyped, BoardFits, Grown, begun' = begun, shown' = shown, board' = board
  PROVE  BoardIs(board') /\ BoardFits'
<1>1. BoardIs(board') /\ shown \in 0 .. Len(told) /\ told \in Seq(Events)
  BY DEF ProgressTyped
<1>2. /\ \A kinds : SentUpTo(told', kinds, shown) = SentUpTo(told, kinds, shown)
      /\ Flying(told', shown) = Flying(told, shown)
      /\ \A i \in 1 .. shown : told'[i] = told[i]
  <2>1. \A i \in 1 .. shown : i \in 1 .. Len(told)
    BY <1>1
  <2> QED
    BY <1>1, <2>1, GrownKeeps
<1>3. shown > 0 => told'[shown] = told[shown]
  <2>1. shown > 0 => shown \in 1 .. shown
    BY <1>1
  <2> QED
    BY <1>2, <2>1
<1>4. shown > 0 /\ BarFits => BarFits'
  <2>1. BarFits' = BarIs(begun', board', shown', told'[shown'], Flying(told', shown'))
    BY DEF BarFits, BarIs
  <2> QED
    BY <1>2, <1>3, <2>1 DEF BarFits
<1>5. TimesFit => TimesFit'
  <2> DEFINE S == SentUpTo(told, {"asset_timings"}, shown)
  <2>1. \A i \in S : told'[i] = told[i]
    <3>1. \A i \in S : i \in 1 .. shown
      BY <1>1 DEF SentUpTo, SentIn
    <3> QED
      BY <1>2, <3>1
  <2>2. SentUpTo(told', {"asset_timings"}, shown) = S
    BY <1>2
  <2>3. TimesFit' = TimesAre(board'.timed, told', shown')
    BY DEF TimesFit, TimesAre
  <2> HIDE DEF S
  <2>4. {<<told'[i].idx, told'[i].detail>> : i \in S} = {<<told[i].idx, told[i].detail>> : i \in S}
    BY <2>1
  <2>5. TimesAre(board.timed, told, shown) => TimesAre(board.timed, told', shown)
    BY <2>2, <2>4 DEF TimesAre, S
  <2> QED
    BY <2>3, <2>5 DEF TimesFit
<1>6. /\ Flying(told', shown') # 0 => (Flying(told, shown) \in board.named => Flying(told', shown') \in board'.named)
      /\ Flying(told', shown') = Flying(told, shown)
  BY <1>2
<1> QED
  BY <1>1, <1>3, <1>4, <1>5, <1>6 DEF BoardFits

\* The memory of the display is gone with the process.
LEMMA BoardKilled ==
  ASSUME ProgressTyped, Quit
  PROVE  BoardIs(board') /\ BoardFits'
<1>1. board' = FreshBoard /\ told' = << >> /\ shown' = 0
  BY DEF Quit
<1>2. BoardIs(FreshBoard)
  BY DEF BoardIs, FreshBoard
<1>3. BoardIs(board')
  BY <1>1, <1>2
<1>4. Flying(told', shown') = 0
  BY <1>1, NothingFlies
<1>5. TimesFit'
  <2>1. TimesFit' = TimesAre(board'.timed, told', shown')
    BY DEF TimesFit, TimesAre
  <2>2. SentUpTo(<< >>, {"asset_timings"}, 0) = {}
    BY DEF SentUpTo, SentIn
  <2>3. Cardinality({}) = 0 /\ Len(<< >>) = 0 /\ 1 .. 0 = {}
    BY FS_EmptySet
  <2>4. TimesAre(<< >>, << >>, 0)
    BY <2>2, <2>3 DEF TimesAre
  <2> QED
    BY <1>1, <2>1, <2>4 DEF FreshBoard
<1> QED
  BY <1>1, <1>3, <1>4, <1>5 DEF BoardFits

\* Only the display changes what it holds.
LEMMA OnlyDisplayDraws ==
  ASSUME ProgressNext
  PROVE  Quit \/ Handle \/ StdoutCloses \/ Join \/ (shown' = shown /\ board' = board)
<1>1. CASE OpenLog \/ ScanEnds \/ RunFails \/ SweepBegins \/ Examine \/ SweepEnds \/ SeedStopped
  BY <1>1 DEF OpenLog, ScanEnds, RunFails, SweepBegins, Examine, SweepEnds, SeedStopped, Quietly, Fails
<1>2. CASE LoopStops \/ AssetStarts \/ AssetPasses \/ CodeStored \/ AssetFails \/ Vision \/ PageRead
  BY <1>2 DEF LoopStops, AssetStarts, AssetPasses, CodeStored, AssetFails, Vision, PageRead, Quietly, Fails
<1>3. CASE PagesCancelled \/ PagesEnd \/ Chunks \/ Stores \/ Embeds \/ AssetEnds
  BY <1>3 DEF PagesCancelled, PagesEnd, Chunks, Stores, Embeds, AssetEnds, Quietly, Fails
<1>4. CASE CreateJob \/ UpdateJob \/ FinishJob \/ RecordRun \/ TellEnd \/ Summarize
  BY <1>4 DEF CreateJob, UpdateJob, FinishJob, RecordRun, TellEnd, Summarize, Quietly, Fails
<1>5. CASE Press
  BY <1>5 DEF Press, Interrupted
<1> QED
  BY <1>1, <1>2, <1>3, <1>4, <1>5 DEF ProgressNext

\* The display ends early, and draws no more.
LEMMA BoardClosed ==
  ASSUME ProgressTyped, StdoutCloses
  PROVE  BoardIs(board')
<1>1. board' = BoardOf(board.live, "closed", board.len, board.pos, board.clock, board.path, board.scan, board.named,
                       board.timed, board.slowest)
  <2>1. board = BoardOf(board.live, board.label, board.len, board.pos, board.clock, board.path, board.scan, board.named,
                        board.timed, board.slowest)
    BY DEF ProgressTyped, BoardIs, BoardOf
  <2>2. board' = [board EXCEPT !.label = "closed"]
    BY DEF StdoutCloses
  <2> QED
    BY <2>1, <2>2 DEF BoardOf
<1>2. BoardIs(board)
  BY DEF ProgressTyped
<1> QED
  BY <1>1, <1>2 DEF BoardIs, BoardOf

\* The display is joined: its bar is gone, and what it counted is not.
LEMMA BoardJoined ==
  ASSUME ProgressTyped, BoardFits, Join
  PROVE  BoardIs(board') /\ BoardFits'
<1>1. board = BoardOf(board.live, board.label, board.len, board.pos, board.clock, board.path, board.scan, board.named,
                      board.timed, board.slowest)
  BY DEF ProgressTyped, BoardIs, BoardOf
<1>2. board' = [board EXCEPT !.live = FALSE]
  BY DEF Join
<1>3. board' = BoardOf(FALSE, board.label, board.len, board.pos, board.clock, board.path, board.scan, board.named,
                       board.timed, board.slowest)
  BY <1>1, <1>2 DEF BoardOf
<1>4. BoardIs(board')
  BY <1>3 DEF ProgressTyped, BoardIs, BoardOf
<1>5. /\ board'.live = FALSE /\ board'.named = board.named /\ board'.timed = board.timed /\ board'.slowest = board.slowest
      /\ board = FreshBoard => board' = FreshBoard
  <2>1. /\ board'.live = FALSE /\ board'.named = board.named /\ board'.timed = board.timed
        /\ board'.slowest = board.slowest
    BY <1>3 DEF BoardOf
  <2>2. board = FreshBoard => board.live = FALSE
    <3>1. FreshBoard.live = FALSE
      BY DEF FreshBoard
    <3> QED
      BY <3>1
  <2>3. board.live = FALSE => board' = board
    BY <1>1, <1>3
  <2> QED
    BY <2>1, <2>2, <2>3
<1>6. begun' = begun /\ told' = told /\ shown' = shown
  BY DEF Join
<1>7. TimesFit' = TimesFit
  <2>1. TimesFit' = TimesAre(board'.timed, told', shown')
    BY DEF TimesFit, TimesAre
  <2> QED
    BY <1>5, <1>6, <2>1 DEF TimesFit
<1>8. Flying(told', shown') = Flying(told, shown) /\ told'[shown'] = told[shown]
  BY <1>6
<1>9. ASSUME ~begun.json
      PROVE  /\ shown' = 0 => board' = FreshBoard
             /\ shown' > 0 /\ board'.live => BarFits'
             /\ Flying(told', shown') # 0 => Flying(told', shown') \in board'.named
             /\ TimesFit'
             /\ shown' > 0 /\ told'[shown'].kind = "completed" => board'.slowest = Slowest(board'.timed)
  BY <1>5, <1>6, <1>7, <1>8, <1>9 DEF BoardFits
<1> QED
  BY <1>4, <1>6, <1>9 DEF BoardFits

\* Every step leaves the display showing the events it has handled.
LEMMA BoardStep ==
  ASSUME ProgressTyped, Located, AllFollow(begun, told), BoardFits, ProgressNext
  PROVE  BoardIs(board') /\ BoardFits'
<1>1. begun' = begun
  BY StagesTyped
<1>2. BoardIs(board)
  BY DEF ProgressTyped
<1>3. begun.json => BoardFits'
  BY <1>1 DEF BoardFits
<1>4. CASE Quit
  BY <1>4, BoardKilled
<1>5. CASE Handle
  <2>1. CASE begun.json
    <3>1. board' = board
      BY <1>5, <2>1 DEF Handle
    <3> QED
      BY <1>2, <1>3, <2>1, <3>1
  <2>2. CASE ~begun.json
    BY <1>5, <2>2, BoardHandles
  <2> QED
    BY <2>1, <2>2
<1>6. CASE StdoutCloses
  <2>1. begun.json
    BY <1>6 DEF StdoutCloses
  <2> QED
    BY <1>3, <1>6, <2>1, BoardClosed
<1>7. CASE Join
  BY <1>7, BoardJoined
<1>8. CASE ~Quit /\ shown' = shown /\ board' = board
  <2>1. Grown
    BY <1>8, StepGrows
  <2> QED
    BY <1>1, <1>8, <2>1, BoardWaits
<1> QED
  BY <1>4, <1>5, <1>6, <1>7, <1>8, OnlyDisplayDraws

-----------------------------------------------------------------------------
(* Progress: the log *)

\* A sequence is a list.
LEMMA SeqIsList ==
  ASSUME NEW S, NEW s \in Seq(S)
  PROVE  IsList(s) /\ DOMAIN s = 1 .. Len(s)
BY DEF IsList

\* A list with one element more.
LEMMA ListOneMore ==
  ASSUME NEW s, IsList(s), NEW r
  PROVE  /\ IsList(s \o <<r>>) /\ Len(s) \in Nat /\ Len(s \o <<r>>) = Len(s) + 1 /\ s \o << >> = s
         /\ DOMAIN s = 1 .. Len(s) /\ DOMAIN (s \o <<r>>) = 1 .. Len(s) + 1
         /\ \A i \in 1 .. Len(s) : (s \o <<r>>)[i] = s[i]
         /\ (s \o <<r>>)[Len(s) + 1] = r
<1> DEFINE S == {s[i] : i \in 1 .. Len(s)} \cup {r}
<1>1. s \in Seq(S)
  <2>1. Len(s) \in Nat /\ s = [i \in 1 .. Len(s) |-> s[i]]
    BY DEF IsList
  <2>2. \A i \in 1 .. Len(s) : s[i] \in S
    OBVIOUS
  <2> HIDE DEF S
  <2>3. s \in [1 .. Len(s) -> S]
    BY <2>1, <2>2
  <2> QED
    BY <2>1, <2>3
<1>2. r \in S
  OBVIOUS
<1> HIDE DEF S
<1>3. s \o <<r>> \in Seq(S)
  BY <1>1, <1>2
<1>4. IsList(s \o <<r>>)
  BY <1>3, SeqIsList
<1>5. /\ Len(s) \in Nat /\ Len(s \o <<r>>) = Len(s) + 1 /\ s \o << >> = s
      /\ DOMAIN s = 1 .. Len(s) /\ DOMAIN (s \o <<r>>) = 1 .. Len(s) + 1
      /\ \A i \in 1 .. Len(s) : (s \o <<r>>)[i] = s[i]
      /\ (s \o <<r>>)[Len(s) + 1] = r
  BY <1>1, <1>2
<1> QED
  BY <1>4, <1>5

\* The records of a kind in a log with one record more.
LEMMA RecordsOneMore ==
  ASSUME NEW s, IsList(s), NEW r, NEW what
  PROVE  /\ Cardinality(RecordsIn(s, what)) \in Nat
         /\ r[1] = what => /\ RecordsIn(s \o <<r>>, what) = RecordsIn(s, what) \cup {Len(s) + 1}
                           /\ Cardinality(RecordsIn(s \o <<r>>, what)) = Cardinality(RecordsIn(s, what)) + 1
         /\ r[1] # what => RecordsIn(s \o <<r>>, what) = RecordsIn(s, what)
<1> DEFINE u == s \o <<r>>
           n == Len(s)
<1>1. /\ n \in Nat /\ DOMAIN s = 1 .. n /\ DOMAIN u = 1 .. n + 1 /\ \A i \in 1 .. n : u[i] = s[i]
      /\ u[n + 1] = r
  BY ListOneMore
<1> HIDE DEF u, n
<1>2. 1 .. n + 1 = (1 .. n) \cup {n + 1} /\ n + 1 \notin 1 .. n
  BY <1>1
<1>3. RecordsIn(s, what) \in SUBSET (1 .. n)
  BY <1>1 DEF RecordsIn
<1>4. r[1] = what => RecordsIn(u, what) = RecordsIn(s, what) \cup {n + 1}
  BY <1>1, <1>2 DEF RecordsIn
<1>5. r[1] # what => RecordsIn(u, what) = RecordsIn(s, what)
  BY <1>1, <1>2 DEF RecordsIn
<1>6. IsFiniteSet(RecordsIn(s, what)) /\ n + 1 \notin RecordsIn(s, what)
  BY <1>1, <1>2, <1>3, Ranks, Zenon
<1>7. /\ Cardinality(RecordsIn(s, what)) \in Nat
      /\ Cardinality(RecordsIn(s, what) \cup {n + 1}) = Cardinality(RecordsIn(s, what)) + 1
  BY <1>6, FS_CardinalityType, FS_AddElement
<1> QED
  BY <1>4, <1>5, <1>7 DEF u, n

\* Half of the range, and nine tenths of it, are in their order within it.
LEMMA Shares ==
  ASSUME NEW n \in Nat, n # 0
  PROVE  /\ ((n - 1) * 50) \div 100 + 1 \in 1 .. n /\ ((n - 1) * 90) \div 100 + 1 \in 1 .. n
         /\ ((n - 1) * 50) \div 100 + 1 <= ((n - 1) * 90) \div 100 + 1
         /\ ((n - 1) * 90) \div 100 + 1 <= n
OBVIOUS

\* The times of the pages are told from the median up.
LEMMA OcrTimesInOrder ==
  ASSUME NEW s \in Seq(Nat), OcrTimes(s) # << >>
  PROVE  OcrTimes(s)[1] <= OcrTimes(s)[2] /\ OcrTimes(s)[2] <= OcrTimes(s)[3]
<1> DEFINE below == [i \in DOMAIN s |-> {j \in DOMAIN s : s[j] < s[i] \/ (s[j] = s[i] /\ j < i)}]
           n == Len(s)
           a == Arranged(s, below)
<1>1. s # << >> /\ n \in Nat /\ n # 0 /\ DOMAIN s = 1 .. n /\ \A i \in 1 .. n : s[i] \in Nat
  BY DEF OcrTimes
<1>2. OrdersAll(below, n)
  <2>1. \A i \in 1 .. n : below[i] = {j \in 1 .. n : s[j] < s[i] \/ (s[j] = s[i] /\ j < i)}
    BY <1>1
  <2> HIDE DEF below, n
  <2>2. \A i \in 1 .. n : below[i] \in SUBSET (1 .. n) /\ i \notin below[i]
    BY <1>1, <2>1
  <2>3. \A i, j \in 1 .. n : i = j \/ i \in below[j] \/ j \in below[i]
    BY <1>1, <2>1
  <2>4. ASSUME NEW i \in 1 .. n, NEW j \in 1 .. n, i \in below[j], NEW k \in below[i]
        PROVE  k \in below[j]
    <3>1. /\ s[i] < s[j] \/ (s[i] = s[j] /\ i < j)
          /\ k \in 1 .. n /\ (s[k] < s[i] \/ (s[k] = s[i] /\ k < i))
      BY <2>1, <2>4
    <3>2. s[i] \in Nat /\ s[j] \in Nat /\ s[k] \in Nat /\ i \in Nat /\ j \in Nat /\ k \in Nat
      BY <1>1, <3>1
    <3>3. s[k] < s[j] \/ (s[k] = s[j] /\ k < j)
      BY <3>1, <3>2
    <3> QED
      BY <2>1, <3>1, <3>3
  <2> QED
    BY <2>2, <2>3, <2>4 DEF OrdersAll
<1>3. /\ a \in Seq(Nat) /\ Len(a) = n
      /\ \A k, l \in 1 .. n : k <= l => a[k] <= a[l]
  <2>1. \A k, l \in 1 .. n : k \in below[l] => s[k] <= s[l]
    BY <1>1
  <2> HIDE DEF below
  <2>2. a \in Seq(Nat) /\ Len(a) = n /\ \E f : Standing(f, a, s, below)
    BY <1>2, ArrangedInOrder
  <2>3. PICK f \in [1..n -> 1..n] : /\ \A k \in 1..n : a[k] = s[f[k]]
                                    /\ \A k, l \in 1..n : k < l => f[k] \in below[f[l]]
    BY <2>2 DEF Standing
  <2> HIDE DEF a, n
  <2>4. ASSUME NEW k \in 1 .. n, NEW l \in 1 .. n, k <= l
        PROVE  a[k] <= a[l]
    <3>1. a[k] = s[f[k]] /\ a[l] = s[f[l]] /\ f[k] \in 1 .. n /\ f[l] \in 1 .. n
      BY <2>3
    <3>2. CASE k = l
      BY <1>1, <3>1, <3>2
    <3>3. CASE k # l
      <4>1. k < l
        BY <1>1, <2>4, <3>3
      <4> QED
        BY <2>1, <2>3, <3>1, <4>1
    <3> QED
      BY <3>2, <3>3
  <2> QED
    BY <2>2, <2>4
<1> DEFINE p == ((n - 1) * 50) \div 100 + 1
           q == ((n - 1) * 90) \div 100 + 1
<1>4. OcrTimes(s) = <<a[p], a[q], a[n]>>
  <2>1. OcrTimes(s) = <<Percentile(a, 50), Percentile(a, 90), a[Len(a)]>>
    BY <1>1 DEF OcrTimes
  <2> HIDE DEF a
  <2> QED
    BY <1>3, <2>1 DEF Percentile
<1>5. p \in 1 .. n /\ q \in 1 .. n /\ n \in 1 .. n /\ p <= q /\ q <= n
  <2>1. n \in 1 .. n
    BY <1>1
  <2> QED
    BY <1>1, <2>1, Shares
<1> HIDE DEF p, q, a, n
<1>6. a[p] <= a[q] /\ a[q] <= a[n]
  BY <1>3, <1>5
<1> QED
  BY <1>4, <1>6

\* Of the older logs, the newest are kept.
LEMMA CleanedUpWell ==
  ASSUME NEW b \in Begins
  PROVE  LET log == CleanedUp(b.logs)
         IN /\ log = [kept |-> log.kept, removed |-> log.removed, records |-> log.records] /\ log.records = << >>
            /\ Cardinality(log.kept) <= KeepRecent
            /\ \A k \in log.kept, r \in log.removed : b.logs[k] <= b.logs[r]
<1> DEFINE ages == b.logs
           fresh == {i \in DOMAIN ages : i <= KeepRecent /\ ages[i] < RetentionDays}
           old == DOMAIN ages \ fresh
<1>1. /\ ages \in Seq(Nat) /\ Len(ages) \in Nat /\ DOMAIN ages = 1 .. Len(ages)
      /\ \A i \in DOMAIN ages : ages[i] \in Nat
      /\ \A i, j \in DOMAIN ages : i < j => ages[i] <= ages[j]
  BY BegunIs
<1>2. KeepRecent \in Nat /\ RetentionDays \in Nat
  BY ProgressAssumption
<1>3. CleanedUp(ages) = [kept |-> fresh, removed |-> old, records |-> << >>]
  BY DEF CleanedUp
<1>4. \A k \in fresh, r \in old : ages[k] <= ages[r]
  <2> HIDE DEF ages
  <2> QED
    BY <1>1, <1>2
<1>5. fresh \in SUBSET (1 .. KeepRecent)
  <2> HIDE DEF ages
  <2> QED
    BY <1>1, <1>2
<1> HIDE DEF fresh, old, ages
<1>6. Cardinality(fresh) <= KeepRecent
  <2>1. IsFiniteSet(1 .. KeepRecent) /\ Cardinality(1 .. KeepRecent) = KeepRecent
    BY <1>2, Ranks, FS_Interval
  <2> QED
    BY <1>5, <2>1, FS_Subset
<1> QED
  BY <1>3, <1>4, <1>6 DEF ages

\* No record is written, and no count of the log changes.
LEMMA LogKept ==
  ASSUME LogFits, runLog' = runLog, begun' = begun,
         totals'.pages = totals.pages, totals'.count["error"] = totals.count["error"],
         course'.purged = course.purged,
         stage' = "start" => stage = "start", stage = "killed" => stage' = "killed",
         stage \in {"returned", "reported"} <=> stage' \in {"returned", "reported"}
  PROVE  LogFits'
<1>1. runLog # Untold => LogIs(runLog)'
  BY DEF LogFits, LogIs
<1>2. RecordsFit(runLog.records) => RecordsFit(runLog.records)'
  BY DEF RecordsFit, RecordsIn, Summary
<1>3. stage' # "killed" => stage # "killed"
  OBVIOUS
<1>4. Untold' = Untold
  BY DEF Untold
<1> QED
  BY <1>1, <1>2, <1>3, <1>4 DEF LogFits

\* A log that is told nothing is what it was.
LEMMA LogNotTold ==
  ASSUME LogFits, Logged(<< >>)
  PROVE  runLog' = runLog
<1>1. CASE runLog = Untold
  BY <1>1 DEF Logged
<1>2. CASE runLog # Untold
  <2>1. /\ runLog = [kept |-> runLog.kept, removed |-> runLog.removed, records |-> runLog.records]
        /\ IsList(runLog.records)
    BY <1>2 DEF LogFits, LogIs
  <2>2. runLog.records \o << >> = runLog.records
    BY <2>1, ListOneMore
  <2>3. runLog' = [runLog EXCEPT !.records = runLog.records \o << >>]
    BY <1>2 DEF Logged
  <2> QED
    BY <2>1, <2>2, <2>3
<1> QED
  BY <1>1, <1>2

\* A record is written, and its count with it.
LEMMA LogTold ==
  ASSUME LogFits, NEW r, Logged(<<r>>), begun' = begun,
         stage \notin {"start", "killed", "returned", "reported"}, stage' # "start",
         totals'.pages = IF r[1] = "ocr" THEN totals.pages + 1 ELSE totals.pages,
         totals'.count["error"] = IF r[1] = "error" THEN totals.count["error"] + 1 ELSE totals.count["error"],
         course'.purged = IF r[1] = "purge" THEN course.purged + 1 ELSE course.purged,
         stage' \in {"returned", "reported"} <=> r[1] = "summary",
         r[1] = "summary" => Summary(r)'
  PROVE  LogFits'
<1>s. PICK s : s = runLog.records
  OBVIOUS
<1>u. PICK u : u = s \o <<r>>
  OBVIOUS
<1>0. Untold' = Untold
  BY DEF Untold
<1>1. CASE runLog = Untold
  <2>1. runLog' = Untold
    BY <1>1 DEF Logged
  <2> QED
    BY <1>0, <2>1 DEF LogFits
<1>2. CASE runLog # Untold
  <2>1. LogIs(runLog) /\ RecordsFit(s)
    BY <1>2, <1>s DEF LogFits
  <2>2. /\ runLog = [kept |-> runLog.kept, removed |-> runLog.removed, records |-> s] /\ IsList(s)
        /\ Cardinality(runLog.kept) <= KeepRecent
        /\ \A k \in runLog.kept, q \in runLog.removed : begun.logs[k] <= begun.logs[q]
    BY <2>1, <1>s DEF LogIs
  <2>3. runLog' = [runLog EXCEPT !.records = u]
    BY <1>2, <1>s, <1>u DEF Logged
  <2>4. IsList(u) /\ Len(s) \in Nat /\ Len(u) = Len(s) + 1 /\ u[Len(u)] = r
    BY <2>2, <1>u, ListOneMore
  <2>5. \A what : /\ Cardinality(RecordsIn(s, what)) \in Nat
                  /\ r[1] = what => /\ RecordsIn(u, what) = RecordsIn(s, what) \cup {Len(u)}
                                    /\ Cardinality(RecordsIn(u, what)) = Cardinality(RecordsIn(s, what)) + 1
                  /\ r[1] # what => RecordsIn(u, what) = RecordsIn(s, what)
    <3> SUFFICES ASSUME NEW what
                 PROVE  /\ Cardinality(RecordsIn(s, what)) \in Nat
                        /\ r[1] = what => /\ RecordsIn(u, what) = RecordsIn(s, what) \cup {Len(u)}
                                          /\ Cardinality(RecordsIn(u, what)) = Cardinality(RecordsIn(s, what)) + 1
                        /\ r[1] # what => RecordsIn(u, what) = RecordsIn(s, what)
      OBVIOUS
    <3>1. /\ Cardinality(RecordsIn(s, what)) \in Nat
          /\ r[1] = what => /\ RecordsIn(s \o <<r>>, what) = RecordsIn(s, what) \cup {Len(s) + 1}
                            /\ Cardinality(RecordsIn(s \o <<r>>, what)) = Cardinality(RecordsIn(s, what)) + 1
          /\ r[1] # what => RecordsIn(s \o <<r>>, what) = RecordsIn(s, what)
      BY <2>2, RecordsOneMore
    <3> QED
      BY <1>u, <2>4, <3>1
  <2>6. runLog' = [kept |-> runLog.kept, removed |-> runLog.removed, records |-> u]
    <3>1. runLog' = [runLog EXCEPT !.records = u]
      BY <2>3
    <3> QED
      BY <2>2, <3>1
  <2>7. runLog'.kept = runLog.kept /\ runLog'.removed = runLog.removed /\ runLog'.records = u
    BY <2>6
  <2>8. LogIs(runLog)'
    <3>1. runLog' = [kept |-> runLog'.kept, removed |-> runLog'.removed, records |-> runLog'.records]
      BY <2>6, <2>7
    <3> QED
      BY <2>2, <2>4, <2>7, <3>1 DEF LogIs, IsList
  <2>9. /\ Cardinality(RecordsIn(s, "purge")) = course.purged
        /\ Cardinality(RecordsIn(s, "error")) = totals.count["error"]
        /\ Cardinality(RecordsIn(s, "ocr")) = totals.pages
        /\ RecordsIn(s, "summary") = {}
    BY <2>1 DEF RecordsFit
  <2>10. /\ Cardinality(RecordsIn(u, "purge")) = course'.purged
         /\ Cardinality(RecordsIn(u, "error")) = totals'.count["error"]
         /\ Cardinality(RecordsIn(u, "ocr")) = totals'.pages
         /\ RecordsIn(u, "summary") = IF stage' \in {"returned", "reported"} THEN {Len(u)} ELSE {}
    BY <2>5, <2>9
  <2>11. stage' \in {"returned", "reported"} => Summary(u[Len(u)])'
    <3>1. stage' \in {"returned", "reported"} => Summary(r)'
      OBVIOUS
    <3>2. Summary(u[Len(u)])' = (Summary(r)')
      BY <2>4 DEF Summary
    <3> QED
      BY <3>1, <3>2
  <2>12. RecordsFit(runLog.records)'
    <3>1. RecordsFit(u)'
      BY <2>10, <2>11 DEF RecordsFit, RecordsIn, Summary
    <3> QED
      BY <2>7, <3>1 DEF RecordsFit, RecordsIn, Summary
  <2> QED
    BY <2>8, <2>12 DEF LogFits
<1> QED
  BY <1>1, <1>2

\* Most steps write nothing in the log and count nothing that is in it.
LEMMA LogStays ==
  ASSUME course \in Courses, totals \in Totals,
         \/ ScanEnds \/ RunFails \/ SweepBegins \/ SeedStopped \/ LoopStops \/ AssetStarts \/ AssetPasses \/ CodeStored
         \/ AssetFails \/ Vision \/ PagesCancelled \/ PagesEnd \/ Chunks \/ Stores \/ Embeds
         \/ CreateJob \/ UpdateJob \/ FinishJob \/ RecordRun \/ TellEnd
         \/ (Press /\ Interrupted) \/ Handle \/ StdoutCloses \/ Join
  PROVE  /\ runLog' = runLog /\ begun' = begun
         /\ totals'.pages = totals.pages /\ totals'.count["error"] = totals.count["error"]
         /\ course'.purged = course.purged
         /\ stage' = "start" => stage = "start"
         /\ stage = "killed" => stage' = "killed"
         /\ stage \in {"returned", "reported"} <=> stage' \in {"returned", "reported"}
<1>1. CASE ScanEnds \/ RunFails \/ SweepBegins \/ SeedStopped
  BY <1>1 DEF ScanEnds, RunFails, SweepBegins, SeedStopped, Moves, Quietly, Fails, Courses
<1>2. CASE LoopStops
  BY <1>2 DEF LoopStops, Moves, Quietly, Courses
<1>3. CASE AssetStarts
  <2>1. /\ runLog' = runLog /\ begun' = begun /\ totals' = totals /\ course'.purged = course.purged /\ stage = "next"
    BY <1>3 DEF AssetStarts, Quietly, Courses
  <2>2. stage' \in {"pages", "vision", "chunk", "quiet"}
    BY <1>3 DEF AssetStarts
  <2> QED
    BY <2>1, <2>2
<1>4. CASE AssetPasses \/ CodeStored
  BY <1>4 DEF AssetPasses, CodeStored, Quietly, Item, Courses
<1>5. CASE AssetFails \/ PagesCancelled
  BY <1>5 DEF AssetFails, PagesCancelled, Quietly, Fails, Item, Courses
<1>6. CASE PagesEnd
  BY <1>6 DEF PagesEnd, Moves, Quietly, Totals
<1>7. CASE Vision \/ Stores \/ TellEnd
  BY <1>7 DEF Vision, Stores, TellEnd, Moves, Quietly
<1>8. CASE Chunks \/ Embeds
  BY <1>8 DEF Chunks, Embeds, Moves, Quietly, Item, Courses
<1>9. CASE CreateJob \/ UpdateJob \/ FinishJob \/ RecordRun
  BY <1>9 DEF CreateJob, UpdateJob, FinishJob, RecordRun, Moves, Quietly, Fails
<1>10. CASE (Press /\ Interrupted) \/ Handle \/ StdoutCloses
  BY <1>10 DEF Press, Interrupted, Handle, StdoutCloses
<1>11. CASE Join
  BY <1>11 DEF Join
<1> QED
  BY <1>1, <1>2, <1>3, <1>4, <1>5, <1>6, <1>7, <1>8, <1>9, <1>10, <1>11

\* The log of a run begins empty, the older ones cleaned up.
LEMMA LogOpens ==
  ASSUME ProgressTyped, Located, CountsFit, LogFits, OpenLog
  PROVE  LogFits'
<1>1. /\ stage = "start" /\ stage' = "scan" /\ begun' = begun /\ course' = course /\ totals' = totals
      /\ runLog' = CleanedUp(begun.logs) \/ runLog' = Untold
  BY DEF OpenLog, Moves, Quietly
<1>2. begun \in Begins /\ totals \in Totals
  BY DEF ProgressTyped
<1>3. course.purged = 0
  BY <1>1 DEF Located, NotBegun, FreshCourse
<1>4. totals.pages = 0
  BY <1>1 DEF LogFits
<1>5. totals.count["error"] = 0
  <2>1. Len(totals.items) = 0
    BY <1>1 DEF Located, AssetStages, LoopStages, AfterLoop, Ends
  <2>2. totals.items = << >>
    BY <1>2, <2>1 DEF Totals
  <2>3. totals.count["error"] = CountIn(totals.items, "error")
    BY DEF CountsFit, ItemKinds
  <2>4. CountIn(<< >>, "error") = 0
    BY FS_EmptySet DEF CountIn
  <2> QED
    BY <2>2, <2>3, <2>4
<1>6. Untold' = Untold
  BY DEF Untold
<1>7. CASE runLog' = Untold
  BY <1>1, <1>6, <1>7 DEF LogFits
<1>8. CASE runLog' = CleanedUp(begun.logs)
  <2>1. PICK log : log = CleanedUp(begun.logs)
    OBVIOUS
  <2>2. /\ log = [kept |-> log.kept, removed |-> log.removed, records |-> log.records] /\ log.records = << >>
        /\ Cardinality(log.kept) <= KeepRecent
        /\ \A k \in log.kept, r \in log.removed : begun.logs[k] <= begun.logs[r]
    BY <1>2, <2>1, CleanedUpWell
  <2>3. IsList(<< >>) /\ \A what : RecordsIn(<< >>, what) = {}
    BY DEF IsList, RecordsIn
  <2>4. LogIs(log)'
    BY <1>1, <2>2, <2>3 DEF LogIs, IsList
  <2>5. RecordsFit(log.records)'
    BY <1>1, <1>3, <1>4, <1>5, <2>2, <2>3, FS_EmptySet DEF RecordsFit, RecordsIn
  <2>6. runLog' = log
    BY <1>8, <2>1
  <2>7. LogIs(runLog)' /\ RecordsFit(runLog.records)'
    BY <2>4, <2>5, <2>6 DEF LogIs, RecordsFit, RecordsIn, Summary, IsList
  <2> QED
    BY <1>1, <2>7 DEF LogFits
<1> QED
  BY <1>1, <1>7, <1>8

\* The process is gone, and with it what the log has not written out.
LEMMA LogCut ==
  ASSUME LogFits, Quit, begun' = begun
  PROVE  LogFits'
<1>1. stage' = "killed"
  BY DEF Quit
<1>2. Untold' = Untold
  BY DEF Untold
<1>3. CASE runLog = Untold
  BY <1>1, <1>2, <1>3 DEF Quit, LogFits
<1>4. CASE runLog # Untold
  <2>1. PICK n \in 0 .. Len(runLog.records) : runLog' = [runLog EXCEPT !.records = SubSeq(runLog.records, 1, n)]
    BY <1>4 DEF Quit
  <2>2. PICK s : s = SubSeq(runLog.records, 1, n)
    OBVIOUS
  <2>3. /\ runLog = [kept |-> runLog.kept, removed |-> runLog.removed, records |-> runLog.records]
        /\ IsList(runLog.records) /\ Cardinality(runLog.kept) <= KeepRecent
        /\ \A k \in runLog.kept, r \in runLog.removed : begun.logs[k] <= begun.logs[r]
    BY <1>4 DEF LogFits, LogIs
  <2>4. IsList(s)
    <3>1. PICK v : v = runLog.records
      OBVIOUS
    <3>2. IsList(v) /\ n \in 0 .. Len(v) /\ s = SubSeq(v, 1, n)
      BY <2>2, <2>3, <3>1
    <3>3. SubSeq(v, 1, n) = [i \in 1 .. n |-> v[i]] /\ n \in Nat
      BY <3>2 DEF IsList
    <3> QED
      BY <3>2, <3>3 DEF IsList
  <2>5. runLog' = [runLog EXCEPT !.records = s]
    BY <2>1, <2>2
  <2>6. runLog' = [kept |-> runLog.kept, removed |-> runLog.removed, records |-> s]
    BY <2>3, <2>5
  <2>7. runLog'.kept = runLog.kept /\ runLog'.removed = runLog.removed /\ runLog'.records = s
    BY <2>6
  <2>8. runLog' = [kept |-> runLog'.kept, removed |-> runLog'.removed, records |-> runLog'.records]
    BY <2>6, <2>7
  <2>9. LogIs(runLog)'
    BY <2>3, <2>4, <2>7, <2>8 DEF LogIs, IsList
  <2> QED
    BY <1>1, <2>9 DEF LogFits
<1> QED
  BY <1>3, <1>4

\* An examined path is in the log if it was to be purged.
LEMMA LogExamined ==
  ASSUME ProgressTyped, LogFits, Examine
  PROVE  LogFits'
<1>0. course \in Courses
  BY DEF ProgressTyped
<1>1. PICK fate \in {"there", "purge", "purge_failed"} :
        /\ course' = [course EXCEPT !.at = @ + 1, !.purged = IF fate = "purge" THEN @ + 1 ELSE @]
        /\ Logged(IF fate = "there" THEN << >> ELSE <<<<fate, course.at + 1>>>>)
  BY DEF Examine
<1>2. stage = "sweep" /\ stage' = stage /\ begun' = begun /\ totals' = totals
  BY DEF Examine, Quietly, Fails
<1>3. course'.purged = IF fate = "purge" THEN course.purged + 1 ELSE course.purged
  BY <1>0, <1>1 DEF Courses
<1>4. CASE fate = "there"
  <2>1. runLog' = runLog
    BY <1>1, <1>4, LogNotTold
  <2>2. course'.purged = course.purged
    BY <1>3, <1>4
  <2> QED
    BY <1>2, <2>1, <2>2, LogKept
<1>5. CASE fate # "there"
  <2>1. PICK r : r = <<fate, course.at + 1>>
    OBVIOUS
  <2>2. Logged(<<r>>)
    BY <1>1, <1>5, <2>1
  <2>3. r[1] = fate
    BY <2>1
  <2>4. course'.purged = IF r[1] = "purge" THEN course.purged + 1 ELSE course.purged
    BY <1>3, <2>3
  <2>5. r[1] \notin {"ocr", "error", "summary"}
    BY <2>3
  <2> QED
    BY <1>2, <2>2, <2>4, <2>5, LogTold
<1> QED
  BY <1>4, <1>5

\* The sweep closes with a record of its own.
LEMMA LogSwept ==
  ASSUME ProgressTyped, LogFits, SweepEnds
  PROVE  LogFits'
<1>1. PICK r : r = <<"sweep_summary", course.at, course.purged>>
  OBVIOUS
<1>2. Logged(<<r>>) /\ stage = "sweep" /\ stage' = "seed" /\ begun' = begun /\ totals' = totals /\ course' = course
  BY <1>1 DEF SweepEnds, Moves, Quietly
<1>3. r[1] = "sweep_summary"
  BY <1>1
<1> QED
  BY <1>2, <1>3, LogTold

\* A page is counted, and is in the log.
LEMMA LogPageRead ==
  ASSUME ProgressTyped, LogFits, PageRead
  PROVE  LogFits'
<1>0. course \in Courses /\ totals \in Totals
  BY DEF ProgressTyped
<1>1. PICK fate \in {"read", "unread", "blank"}, ms \in Durations :
        /\ course' = [course EXCEPT !.page = @ + 1, !.blank = IF fate = "blank" THEN @ + 1 ELSE @]
        /\ Logged(<<<<"ocr", course.page + 1, fate = "read">>>>)
        /\ totals' = [totals EXCEPT !.pages = @ + 1, !.unread = IF fate = "read" THEN @ ELSE @ + 1,
                                    !.samples = IF fate = "read" THEN Append(@, ms) ELSE @]
  BY DEF PageRead
<1>2. stage = "pages" /\ stage' = stage /\ begun' = begun
  BY DEF PageRead, Quietly
<1>3. course'.purged = course.purged
  BY <1>0, <1>1 DEF Courses
<1>4. totals'.pages = totals.pages + 1 /\ totals'.count = totals.count
  BY <1>0, <1>1 DEF Totals
<1>5. PICK r : r = <<"ocr", course.page + 1, fate = "read">>
  OBVIOUS
<1>6. Logged(<<r>>)
  BY <1>1, <1>5
<1>7. r[1] = "ocr"
  BY <1>5
<1> QED
  BY <1>2, <1>3, <1>4, <1>6, <1>7, LogTold

\* An error is counted, and is in the log.
LEMMA LogTallied ==
  ASSUME ProgressTyped, Located, LogFits, AssetEnds
  PROVE  LogFits'
<1>0. course \in Courses /\ totals \in Totals /\ course.item \in ItemKinds
  BY DEF ProgressTyped, Located, AssetEnds, Moves
<1>1. /\ stage = "tally" /\ stage' = "next" /\ begun' = begun /\ course' = course
      /\ totals' = Tallied(course.item, course.chunks)
      /\ Logged(IF course.item = "error" THEN <<<<"error", course.at>>>> ELSE << >>)
  BY DEF AssetEnds, Moves, Quietly
<1>2. /\ totals'.pages = totals.pages
      /\ totals'.count = [totals.count EXCEPT ![course.item] = @ + 1]
  BY <1>0, <1>1 DEF Tallied, Totals
<1>3. totals.count \in [ItemKinds -> Nat]
  BY <1>0 DEF Totals
<1>4. totals'.count["error"] = IF course.item = "error" THEN totals.count["error"] + 1 ELSE totals.count["error"]
  BY <1>0, <1>2, <1>3 DEF ItemKinds
<1>5. CASE course.item # "error"
  <2>1. runLog' = runLog
    BY <1>1, <1>5, LogNotTold
  <2> QED
    BY <1>1, <1>2, <1>4, <1>5, <2>1, LogKept
<1>6. CASE course.item = "error"
  <2>1. PICK r : r = <<"error", course.at>>
    OBVIOUS
  <2>2. Logged(<<r>>) /\ r[1] = "error"
    BY <1>1, <1>6, <2>1
  <2> QED
    BY <1>1, <1>2, <1>4, <1>6, <2>2, LogTold
<1> QED
  BY <1>5, <1>6

\* The summary is the last record of a log.
LEMMA LogSummarized ==
  ASSUME ProgressTyped, LogFits, Summarize
  PROVE  LogFits'
<1>0. totals \in Totals
  BY DEF ProgressTyped
<1>1. PICK r : r = <<"summary", Len(begun.assets), totals.count["new"], totals.count["error"], totals.pages,
                     totals.unread, OcrTimes(totals.samples)>>
  OBVIOUS
<1>2. /\ Logged(<<r>>) /\ stage = "summary" /\ stage' = "returned" /\ begun' = begun /\ totals' = totals
      /\ course' = course
  BY <1>1 DEF Summarize, Moves, Quietly
<1>3. /\ r[1] = "summary" /\ r[4] = totals.count["error"] /\ r[5] = totals.pages /\ r[7] = OcrTimes(totals.samples)
  BY <1>1
<1>4. totals.samples \in Seq(Nat)
  BY <1>0 DEF Totals
<1>5. r[7] # << >> => r[7][1] <= r[7][2] /\ r[7][2] <= r[7][3]
  BY <1>3, <1>4, OcrTimesInOrder
<1>6. Summary(r)'
  BY <1>2, <1>3, <1>5 DEF Summary
<1> QED
  BY <1>2, <1>3, <1>6, LogTold

\* Every step leaves the log telling what the run counted.
LEMMA LogStep ==
  ASSUME ProgressTyped, Located, CountsFit, LogFits, ProgressNext
  PROVE  LogFits'
<1>1. course \in Courses /\ totals \in Totals /\ begun' = begun
  BY StagesTyped DEF ProgressTyped
<1>2. CASE \/ ScanEnds \/ RunFails \/ SweepBegins \/ SeedStopped \/ LoopStops \/ AssetStarts \/ AssetPasses \/ CodeStored
           \/ AssetFails \/ Vision \/ PagesCancelled \/ PagesEnd \/ Chunks \/ Stores \/ Embeds
           \/ CreateJob \/ UpdateJob \/ FinishJob \/ RecordRun \/ TellEnd
           \/ (Press /\ Interrupted) \/ Handle \/ StdoutCloses \/ Join
  <2>1. /\ runLog' = runLog /\ begun' = begun
        /\ totals'.pages = totals.pages /\ totals'.count["error"] = totals.count["error"]
        /\ course'.purged = course.purged
        /\ stage' = "start" => stage = "start"
        /\ stage = "killed" => stage' = "killed"
        /\ stage \in {"returned", "reported"} <=> stage' \in {"returned", "reported"}
    BY <1>1, <1>2, LogStays
  <2> QED
    BY <2>1, LogKept
<1>3. CASE Press /\ Quit
  BY <1>1, <1>3, LogCut
<1>4. Press => Interrupted \/ Quit
  BY DEF Press
<1> QED
  BY <1>2, <1>3, <1>4, LogOpens, LogExamined, LogSwept, LogPageRead, LogTallied, LogSummarized DEF ProgressNext

-----------------------------------------------------------------------------
(* Progress: the rows and the report *)

Rows == {"job_progress", "job_finish", "row", "terminal"} \cup Ends

\* Before the rows are written there is none to be wrong.
LEMMA NoRowsYet ==
  ASSUME LedgerFits, ledger'.job = ledger.job, ledger'.run = ledger.run,
         ledger' = [job |-> ledger'.job, run |-> ledger'.run, ocr |-> ledger'.ocr],
         stage \notin Rows \cup {"killed"}, stage' \notin {"job_progress", "job_finish"}, ledger'.ocr = totals'.pages
  PROVE  LedgerFits'
<1>1. ledger.job = Untold /\ ledger.run = Untold
  BY DEF LedgerFits, JobFits, RunRowFits, Rows
<1>2. Untold' = Untold
  BY DEF Untold
<1> QED
  BY <1>1, <1>2 DEF LedgerFits, JobFits, RunRowFits, JobIs

\* The rows that are written, and what they count, stay.
LEMMA RowsKept ==
  ASSUME LedgerFits, ledger' = ledger, totals' = totals, stage # "killed",
         stage' = stage \/ (stage \in {"row", "terminal"} \cup Ends /\ stage' \in {"terminal"} \cup Ends)
  PROVE  LedgerFits'
<1>1. Untold' = Untold
  BY DEF Untold
<1>2. /\ ledger = [job |-> ledger.job, run |-> ledger.run, ocr |-> ledger.ocr] /\ JobIs(ledger.job)
      /\ ledger.ocr = totals.pages /\ RunRowFits(ledger.run) /\ JobFits(ledger.job)
  BY DEF LedgerFits
<1>3. JobIs(ledger.job)'
  BY <1>1, <1>2 DEF JobIs
<1>4. RunRowFits(ledger.run)'
  BY <1>1, <1>2 DEF RunRowFits, CountsAre, Ends
<1>5. JobFits(ledger.job)'
  BY <1>1, <1>2 DEF JobFits, CountsAre, Ends
<1> QED
  BY <1>2, <1>3, <1>4, <1>5 DEF LedgerFits

\* The counts a table is given are those of the run.
LEMMA TableCountsAre ==
  TableCounts.count = [k \in ItemKinds \ {"unchanged"} |-> totals.count[k]] /\ TableCounts.chunks = totals.chunks
BY DEF TableCounts, Counts, Restrict

\* A row is written with the counts of the run, or it is not.
LEMMA TableRowsStep ==
  ASSUME ProgressTyped, Located, LedgerFits, CreateJob \/ UpdateJob \/ FinishJob \/ RecordRun
  PROVE  LedgerFits'
<1>0. Untold' = Untold
  BY DEF Untold
<1>1. ledger = [job |-> ledger.job, run |-> ledger.run, ocr |-> ledger.ocr] /\ JobIs(ledger.job)
  BY DEF LedgerFits
<1>2. stage # "killed" => ledger.ocr = totals.pages /\ RunRowFits(ledger.run) /\ JobFits(ledger.job)
  BY DEF LedgerFits
<1>3. totals' = totals
  BY DEF CreateJob, UpdateJob, FinishJob, RecordRun
<1>4. CASE CreateJob
  <2>1. CASE ledger' = ledger /\ stage' = "row" /\ stage = "jobs"
    BY <1>1, <1>2, <1>3, <2>1, NoRowsYet DEF Rows, Ends
  <2>2. CASE /\ stage = "jobs" /\ stage' = "job_progress"
             /\ ledger' = [ledger EXCEPT !.job = [is |-> "job", status |-> "pending", progress |-> Untold]]
    <3>1. PICK job : job = [is |-> "job", status |-> "pending", progress |-> Untold]
      OBVIOUS
    <3>2. ledger' = [job |-> job, run |-> ledger.run, ocr |-> ledger.ocr]
      BY <1>1, <2>2, <3>1
    <3>3. ledger.run = Untold /\ ledger.ocr = totals.pages
      BY <1>2, <2>2 DEF RunRowFits, Ends
    <3>4. job # Untold /\ job.progress = Untold /\ job = [is |-> "job", status |-> job.status, progress |-> job.progress]
      BY <3>1 DEF Untold
    <3>5. JobIs(job)' /\ JobFits(job)' /\ RunRowFits(Untold)'
      BY <1>0, <2>2, <3>4 DEF JobIs, JobFits, RunRowFits
    <3>6. ledger'.job = job /\ ledger'.run = Untold /\ ledger'.ocr = totals'.pages
      BY <1>3, <3>2, <3>3
    <3>7. JobIs(ledger.job)' /\ JobFits(ledger.job)' /\ RunRowFits(ledger.run)'
      BY <1>0, <3>5, <3>6 DEF JobIs, JobFits, RunRowFits, CountsAre
    <3> QED
      BY <3>2, <3>6, <3>7 DEF LedgerFits
  <2> QED
    BY <1>4, <2>1, <2>2 DEF CreateJob
<1>5. CASE UpdateJob
  <2>1. stage = "job_progress" /\ stage' = "job_finish"
    BY <1>5 DEF UpdateJob, Moves
  <2>2. /\ ledger.job # Untold /\ ledger.job = [is |-> "job", status |-> ledger.job.status, progress |-> ledger.job.progress]
        /\ ledger.run = Untold /\ ledger.ocr = totals.pages /\ JobFits(ledger.job)
    BY <1>1, <1>2, <2>1 DEF JobIs, JobFits, RunRowFits, Ends
  <2>3. PICK w : w = IF ledger.job.status = "pending" THEN "running" ELSE ledger.job.status
    OBVIOUS
  <2>4. PICK c : c = TableCounts
    OBVIOUS
  <2>5. PICK job : job = [is |-> "job", status |-> w, progress |-> c]
    OBVIOUS
  <2>6. job.progress = c /\ job = [is |-> "job", status |-> job.status, progress |-> job.progress] /\ job # Untold
    BY <2>5 DEF Untold
  <2>7. JobIs(job)'
    BY <2>6 DEF JobIs
  <2>8. JobFits(job)'
    <3>1. c.count = [k \in ItemKinds \ {"unchanged"} |-> totals.count[k]] /\ c.chunks = totals.chunks
      BY <2>4, TableCountsAre
    <3> QED
      BY <1>3, <2>1, <2>6, <3>1 DEF JobFits, CountsAre
  <2>9. CASE ledger' = ledger
    <3>1. JobFits(ledger.job)'
      BY <1>0, <1>3, <2>1, <2>2, <2>9 DEF JobFits, CountsAre
    <3>2. RunRowFits(ledger.run)' /\ JobIs(ledger.job)'
      BY <1>0, <1>1, <2>2, <2>9 DEF RunRowFits, JobIs
    <3> QED
      BY <1>1, <1>3, <2>2, <2>9, <3>1, <3>2 DEF LedgerFits
  <2>10. CASE ledger' = [ledger EXCEPT !.job.status = IF @ = "pending" THEN "running" ELSE @,
                                       !.job.progress = TableCounts]
    <3>1. ledger' = [[ledger EXCEPT !.job = [@ EXCEPT !.status = w]] EXCEPT !.job = [@ EXCEPT !.progress = c]]
      BY <2>3, <2>4, <2>10
    <3>2. [ledger EXCEPT !.job = [@ EXCEPT !.status = w]] =
            [job |-> [is |-> "job", status |-> w, progress |-> ledger.job.progress], run |-> ledger.run, ocr |-> ledger.ocr]
      <4>1. [ledger.job EXCEPT !.status = w] = [is |-> "job", status |-> w, progress |-> ledger.job.progress]
        BY <2>2
      <4> QED
        BY <1>1, <4>1
    <3>3. ledger' = [job |-> job, run |-> ledger.run, ocr |-> ledger.ocr]
      <4>1. PICK j : j = [is |-> "job", status |-> w, progress |-> ledger.job.progress]
        OBVIOUS
      <4>2. PICK l : l = [job |-> j, run |-> ledger.run, ocr |-> ledger.ocr]
        OBVIOUS
      <4>3. [j EXCEPT !.progress = c] = job
        BY <2>5, <4>1
      <4>4. l.job = j /\ ledger' = [l EXCEPT !.job = [l.job EXCEPT !.progress = c]]
        BY <3>1, <3>2, <4>1, <4>2
      <4>5. ledger' = [l EXCEPT !.job = job]
        BY <4>3, <4>4
      <4> QED
        BY <4>2, <4>5
    <3>4. ledger'.job = job /\ ledger'.run = ledger.run /\ ledger'.ocr = ledger.ocr
      BY <3>3
    <3>5. JobIs(ledger.job)' /\ JobFits(ledger.job)'
      BY <2>7, <2>8, <3>4 DEF JobIs, JobFits, CountsAre
    <3>6. RunRowFits(ledger.run)'
      BY <1>0, <2>2, <3>4 DEF RunRowFits
    <3> QED
      BY <1>3, <2>2, <3>3, <3>4, <3>5, <3>6 DEF LedgerFits
  <2> QED
    BY <1>5, <2>9, <2>10 DEF UpdateJob
<1>6. CASE FinishJob
  <2>1. stage = "job_finish" /\ stage' = "row"
    BY <1>6 DEF FinishJob, Moves
  <2>2. /\ ledger.job # Untold /\ ledger.job = [is |-> "job", status |-> ledger.job.status, progress |-> ledger.job.progress]
        /\ ledger.run = Untold /\ ledger.ocr = totals.pages /\ JobFits(ledger.job)
    BY <1>1, <1>2, <2>1 DEF JobIs, JobFits, RunRowFits, Ends
  <2>3. CASE ledger' = ledger
    <3>1. JobFits(ledger.job)'
      BY <1>0, <1>3, <2>1, <2>2, <2>3 DEF JobFits, CountsAre
    <3>2. RunRowFits(ledger.run)' /\ JobIs(ledger.job)'
      BY <1>0, <1>1, <2>2, <2>3 DEF RunRowFits, JobIs
    <3> QED
      BY <1>1, <1>3, <2>2, <2>3, <3>1, <3>2 DEF LedgerFits
  <2>4. CASE ledger' = [ledger EXCEPT !.job.status = "succeeded"]
    <3>1. PICK job : job = [is |-> "job", status |-> "succeeded", progress |-> ledger.job.progress]
      OBVIOUS
    <3>2. [ledger.job EXCEPT !.status = "succeeded"] = job
      BY <2>2, <3>1
    <3>3. ledger' = [job |-> job, run |-> ledger.run, ocr |-> ledger.ocr]
      BY <1>1, <2>4, <3>2
    <3>4. ledger'.job = job /\ ledger'.run = ledger.run /\ ledger'.ocr = ledger.ocr
      BY <3>3
    <3>5. job.progress = ledger.job.progress /\ job = [is |-> "job", status |-> job.status, progress |-> job.progress]
      BY <3>1
    <3>6. JobIs(ledger.job)' /\ JobFits(ledger.job)'
      BY <1>0, <1>3, <2>1, <2>2, <3>4, <3>5 DEF JobIs, JobFits, CountsAre
    <3>7. RunRowFits(ledger.run)'
      BY <1>0, <2>2, <3>4 DEF RunRowFits
    <3> QED
      BY <1>3, <2>2, <3>3, <3>4, <3>6, <3>7 DEF LedgerFits
  <2> QED
    BY <1>6, <2>3, <2>4 DEF FinishJob
<1>7. CASE RecordRun
  <2>1. stage = "row" /\ stage' = "terminal"
    BY <1>7 DEF RecordRun, Moves
  <2>2. CASE ledger' = ledger
    BY <1>3, <2>1, <2>2, RowsKept
  <2>3. CASE ledger' = [ledger EXCEPT !.run = [is |-> "run", items |-> totals.items, count |-> TableCounts.count]]
    <3>1. PICK row : row = [is |-> "run", items |-> totals.items, count |-> TableCounts.count]
      OBVIOUS
    <3>2. ledger' = [job |-> ledger.job, run |-> row, ocr |-> ledger.ocr]
      BY <1>1, <2>3, <3>1
    <3>3. ledger'.job = ledger.job /\ ledger'.run = row /\ ledger'.ocr = ledger.ocr
      BY <3>2
    <3>4. row.items = totals.items /\ row.count = [k \in ItemKinds \ {"unchanged"} |-> totals.count[k]]
      BY <3>1, TableCountsAre
    <3>5. RunRowFits(ledger.run)'
      BY <1>3, <2>1, <3>3, <3>4 DEF RunRowFits, CountsAre
    <3>6. JobIs(ledger.job)' /\ JobFits(ledger.job)'
      BY <1>0, <1>1, <1>2, <1>3, <2>1, <3>3 DEF JobIs, JobFits, CountsAre
    <3> QED
      BY <1>2, <1>3, <2>1, <3>2, <3>3, <3>5, <3>6 DEF LedgerFits
  <2> QED
    BY <1>7, <2>2, <2>3 DEF RecordRun
<1> QED
  BY <1>4, <1>5, <1>6, <1>7

\* A page is counted by the run and by its rows at once.
LEMMA PageRowsStep ==
  ASSUME ProgressTyped, LedgerFits, PageRead
  PROVE  LedgerFits'
<1>1. PICK fate \in {"read", "unread", "blank"}, ms \in Durations :
        /\ ledger' = [ledger EXCEPT !.ocr = @ + 1]
        /\ totals' = [totals EXCEPT !.pages = @ + 1, !.unread = IF fate = "read" THEN @ ELSE @ + 1,
                                    !.samples = IF fate = "read" THEN Append(@, ms) ELSE @]
  BY DEF PageRead
<1>2. totals'.pages = totals.pages + 1
  BY <1>1 DEF ProgressTyped, Totals
<1>3. stage = "pages" /\ stage' = stage
  BY DEF PageRead
<1>4. ledger = [job |-> ledger.job, run |-> ledger.run, ocr |-> ledger.ocr] /\ ledger.ocr = totals.pages
  BY <1>3 DEF LedgerFits
<1>5. ledger' = [job |-> ledger.job, run |-> ledger.run, ocr |-> ledger.ocr + 1]
  BY <1>1, <1>4
<1>6. ledger'.job = ledger.job /\ ledger'.run = ledger.run /\ ledger'.ocr = totals'.pages
  BY <1>2, <1>4, <1>5
<1>7. ledger' = [job |-> ledger'.job, run |-> ledger'.run, ocr |-> ledger'.ocr]
  BY <1>5, <1>6
<1> QED
  BY <1>3, <1>6, <1>7, NoRowsYet DEF Rows, Ends

\* Every step leaves the rows of the run counting what the run counted.
LEMMA LedgerStep ==
  ASSUME ProgressTyped, Located, LedgerFits, ProgressNext
  PROVE  LedgerFits'
<1>0. ledger = [job |-> ledger.job, run |-> ledger.run, ocr |-> ledger.ocr] /\ course \in Courses /\ totals \in Totals
  BY DEF LedgerFits, ProgressTyped
<1>1. ASSUME ledger' = ledger, totals'.pages = totals.pages, stage \notin Rows \cup {"killed"},
             stage' \notin {"job_progress", "job_finish"}
      PROVE  LedgerFits'
  <2>1. ledger.ocr = totals.pages
    BY <1>1 DEF LedgerFits
  <2> QED
    BY <1>0, <1>1, <2>1, NoRowsYet
<1>2. CASE OpenLog \/ ScanEnds \/ RunFails \/ SweepBegins \/ Examine \/ SweepEnds \/ SeedStopped \/ LoopStops
  BY <1>1, <1>2 DEF OpenLog, ScanEnds, RunFails, SweepBegins, Examine, SweepEnds, SeedStopped, LoopStops, Moves, Rows, Ends
<1>3. CASE AssetStarts
  <2>1. stage' \in {"pages", "vision", "chunk", "quiet"}
    BY <1>3 DEF AssetStarts
  <2> QED
    BY <1>1, <1>3, <2>1 DEF AssetStarts, Rows, Ends
<1>4. CASE AssetPasses \/ CodeStored \/ AssetFails \/ PagesCancelled
  BY <1>1, <1>4 DEF AssetPasses, CodeStored, AssetFails, PagesCancelled, Item, Rows, Ends
<1>5. CASE Vision \/ Chunks \/ Stores \/ Embeds
  BY <1>1, <1>5 DEF Vision, Chunks, Stores, Embeds, Item, Moves, Rows, Ends
<1>6. CASE PagesEnd
  <2>1. totals'.pages = totals.pages /\ ledger' = ledger
    BY <1>0, <1>6 DEF PagesEnd, Totals
  <2> QED
    BY <1>1, <1>6, <2>1 DEF PagesEnd, Moves, Rows, Ends
<1>7. CASE AssetEnds
  <2>1. totals'.pages = totals.pages /\ ledger' = ledger
    BY <1>0, <1>7 DEF AssetEnds, Tallied, Totals
  <2> QED
    BY <1>1, <1>7, <2>1 DEF AssetEnds, Moves, Rows, Ends
<1>8. CASE TellEnd \/ Summarize
  BY <1>8, RowsKept DEF TellEnd, Summarize, Moves, Ends
<1>9. CASE (Press /\ Interrupted) \/ Handle \/ StdoutCloses
  <2>1. ledger' = ledger /\ totals' = totals /\ stage' = stage
    BY <1>9 DEF Press, Interrupted, Handle, StdoutCloses
  <2>2. stage # "killed"
    BY <1>9 DEF Press, Handle, StdoutCloses, Listening
  <2> QED
    BY <2>1, <2>2, RowsKept
<1>10. CASE Join
  <2>1. ledger' = ledger /\ totals' = totals
    BY <1>10 DEF Join
  <2>2. CASE stage = "failed" /\ stage' = "gone"
    BY <1>1, <2>1, <2>2 DEF Rows, Ends
  <2>3. CASE stage = "returned" /\ stage' = "reported"
    BY <2>1, <2>3, RowsKept DEF Ends
  <2> QED
    BY <1>10, <2>2, <2>3 DEF Join
<1>11. CASE Press /\ Quit
  <2>1. ledger' = ledger /\ stage' = "killed"
    BY <1>11 DEF Press, Quit
  <2> QED
    BY <2>1 DEF LedgerFits, JobIs, Untold
<1>12. Press => Interrupted \/ Quit
  BY DEF Press
<1> QED
  BY <1>2, <1>3, <1>4, <1>5, <1>6, <1>7, <1>8, <1>9, <1>10, <1>11, <1>12, TableRowsStep, PageRowsStep DEF ProgressNext

\* The report is printed once, at the end, of what the run counted.
LEMMA PrintedStep ==
  ASSUME PrintedFits, begun' = begun, ProgressNext
  PROVE  PrintedFits'
<1>0. Untold' = Untold
  BY DEF Untold
<1>1. CASE Join
  <2>1. CASE stage = "failed"
    <3>1. printed' = printed /\ printed = Untold
      BY <1>1, <2>1 DEF Join, PrintedFits
    <3> QED
      BY <1>0, <3>1 DEF PrintedFits
  <2>2. CASE stage = "returned"
    <3>1. /\ stage' = "reported" /\ totals' = totals /\ course' = course
          /\ printed' = [is |-> "report", items |-> totals.items, blank |-> totals.blank,
                         purged |-> course.purged, counts |-> Counts]
      BY <1>1, <2>2 DEF Join
    <3>2. Counts' = Counts
      BY <3>1 DEF Counts
    <3>3. printed'.items = totals.items /\ printed'.purged = course.purged /\ printed'.counts = Counts
      BY <3>1
    <3> QED
      BY <3>1, <3>2, <3>3 DEF PrintedFits
  <2> QED
    BY <1>1, <2>1, <2>2 DEF Join
<1>2. CASE Handle \/ StdoutCloses
  <2>1. /\ stage' = stage /\ totals' = totals /\ course' = course /\ printed' = printed
    BY <1>2 DEF Handle, StdoutCloses
  <2>2. Counts' = Counts
    BY <2>1 DEF Counts
  <2> QED
    BY <1>0, <2>1, <2>2 DEF PrintedFits
<1>3. ASSUME ~Join, ~Handle, ~StdoutCloses
      PROVE  printed' = printed /\ stage # "reported"
  <2>1. CASE OpenLog \/ ScanEnds \/ RunFails \/ SweepBegins \/ Examine \/ SweepEnds \/ SeedStopped
    BY <2>1 DEF OpenLog, ScanEnds, RunFails, SweepBegins, Examine, SweepEnds, SeedStopped, Moves, Quietly, Fails
  <2>2. CASE LoopStops \/ AssetStarts \/ AssetPasses \/ CodeStored \/ AssetFails \/ Vision \/ PageRead
    BY <2>2 DEF LoopStops, AssetStarts, AssetPasses, CodeStored, AssetFails, Vision, PageRead, Moves, Quietly, Fails
  <2>3. CASE PagesCancelled \/ PagesEnd \/ Chunks \/ Stores \/ Embeds \/ AssetEnds
    BY <2>3 DEF PagesCancelled, PagesEnd, Chunks, Stores, Embeds, AssetEnds, Moves, Quietly, Fails
  <2>4. CASE CreateJob \/ UpdateJob \/ FinishJob \/ RecordRun \/ TellEnd \/ Summarize
    BY <2>4 DEF CreateJob, UpdateJob, FinishJob, RecordRun, TellEnd, Summarize, Moves, Quietly, Fails
  <2>5. CASE Press
    BY <2>5 DEF Press
  <2> QED
    BY <1>3, <2>1, <2>2, <2>3, <2>4, <2>5 DEF ProgressNext
<1>4. CASE ~Join /\ ~Handle /\ ~StdoutCloses
  <2>1. printed' = Untold
    BY <1>3, <1>4 DEF PrintedFits
  <2> QED
    BY <1>0, <2>1 DEF PrintedFits
<1> QED
  BY <1>1, <1>2, <1>4

-----------------------------------------------------------------------------
(* Progress: what is promised *)

\* The asset in flight is the one the events say.
LEMMA InFlightIs ==
  ASSUME NEW n
  PROVE  InFlight(n) = Flying(told, n)
BY DEF InFlight, Flying, SentUpTo, SentIn, Sent, Turns

\* The events of a run come in their order.
LEMMA ToldInOrder ==
  ASSUME ProgressTyped, AllFollow(begun, told), ToldOfEnd
  PROVE  OrderIsKept
<1>1. told \in Seq(Events) /\ DOMAIN told = 1 .. Len(told) /\ Len(told) \in Nat
  BY DEF ProgressTyped
<1> SUFFICES ASSUME NEW i \in 1 .. Len(told)
             PROVE  LET e == told[i]
                    IN /\ (e.kind = "scan_started") = (i = 1)
                       /\ (e.kind = "scan_completed") = (i = 2)
                       /\ e.kind \in SweepKinds => \A j \in 3 .. i - 1 : told[j].kind \in SweepKinds \ {"sweep_completed"}
                       /\ e.kind = "asset_started" => InFlight(i - 1) = 0
                                                      /\ e.idx = Cardinality({j \in Sent({"asset_started"}) : j <= i})
                       /\ e.kind \in WithinKinds => InFlight(i - 1) # 0
                       /\ e.kind \in {"asset_phase", "asset_chunked", "asset_timings", "asset_finished"} =>
                            e.idx = InFlight(i - 1)
                       /\ e.kind \in {"completed", "aborted"} => i = Len(told) /\ InFlight(i) = 0
  BY <1>1 DEF OrderIsKept
<1> DEFINE e == told[i]
           n == i - 1
<1>2. Follows(begun, told, n, e)
  BY <1>1 DEF AllFollow
<1>3. n \in Nat /\ i = n + 1 /\ n \in 0 .. Len(told)
  BY <1>1
<1>4. InFlight(n) = Flying(told, n) /\ InFlight(i) = Flying(told, i)
  BY InFlightIs
<1> HIDE DEF e, n
<1>5. (e.kind = "scan_started") = (i = 1) /\ (e.kind = "scan_completed") = (i = 2)
  <2>1. (e.kind = "scan_started") = (n = 0) /\ (e.kind = "scan_completed") = (n = 1)
    BY <1>2 DEF Follows, FollowsScan
  <2>2. (n = 0) <=> (i = 1)
    BY <1>3
  <2>3. (n = 1) <=> (i = 2)
    BY <1>3
  <2> QED
    BY <2>1, <2>2, <2>3
<1>6. e.kind \in SweepKinds => \A j \in 3 .. n : told[j].kind \in SweepKinds \ {"sweep_completed"}
  BY <1>2 DEF Follows, FollowsSweep, OpenSweep, SweepKinds
<1>7. e.kind = "asset_started" => /\ InFlight(n) = 0
                                  /\ e.idx = Cardinality({j \in Sent({"asset_started"}) : j <= i})
  <2> SUFFICES ASSUME e.kind = "asset_started"
               PROVE  InFlight(n) = 0 /\ e.idx = Cardinality({j \in Sent({"asset_started"}) : j <= i})
    OBVIOUS
  <2>1. Flying(told, n) = 0 /\ e.idx = Cardinality(SentUpTo(told, {"asset_started"}, n)) + 1
    BY <1>2 DEF Follows, FollowsAsset
  <2>2. Cardinality(SentUpTo(told, {"asset_started"}, i)) = Cardinality(SentUpTo(told, {"asset_started"}, i - 1)) + 1
    <3>1. told[i].kind \in {"asset_started"}
      BY DEF e
    <3>2. /\ Cardinality(SentUpTo(told, {"asset_started"}, i)) =
               Cardinality(SentUpTo(told, {"asset_started"}, i - 1)) + (IF told[i].kind \in {"asset_started"} THEN 1 ELSE 0)
          /\ Cardinality(SentUpTo(told, {"asset_started"}, i - 1)) \in Nat
      BY <1>1, SentUpToMore
    <3> QED
      BY <3>1, <3>2
  <2>3. SentUpTo(told, {"asset_started"}, i) = {j \in Sent({"asset_started"}) : j <= i}
    BY DEF SentUpTo, SentIn, Sent
  <2> QED
    BY <1>4, <2>1, <2>2, <2>3 DEF n
<1>8. /\ e.kind \in WithinKinds => InFlight(n) # 0
      /\ e.kind \in {"asset_phase", "asset_chunked", "asset_timings", "asset_finished"} => e.idx = InFlight(n)
  BY <1>2, <1>4 DEF Follows, FollowsAsset
<1>9. e.kind \in {"completed", "aborted"} => i = Len(told) /\ InFlight(i) = 0
  <2> SUFFICES ASSUME e.kind \in {"completed", "aborted"} PROVE i = Len(told) /\ InFlight(i) = 0
    OBVIOUS
  <2>1. i \in SentIn(told, EndKinds)
    BY <1>1 DEF SentIn, EndKinds, e
  <2>2. i = Len(told)
    BY <2>1 DEF ToldOfEnd
  <2>3. Flying(told, n) = 0
    BY <1>2 DEF Follows, FollowsEnd, EndKinds
  <2>4. Flying(told, i) = Flying(told, i - 1)
    BY <1>1, FlyingAfter DEF e
  <2> QED
    BY <1>4, <2>2, <2>3, <2>4 DEF n
<1> QED
  BY <1>5, <1>6, <1>7, <1>8, <1>9 DEF e, n

\* The bar shows the phase of the last event handled.
LEMMA BarShown ==
  ASSUME ProgressTyped, BoardFits
  PROVE  BarIsOfItsPhase
<1> SUFFICES ASSUME ~begun.json, shown > 0, board.live
             PROVE  LET e == told[shown]
                    IN /\ shown > 1 =>
                            board.label = (IF e.kind \in SweepKinds \ {"sweep_completed"} THEN "sweep" ELSE "ingest")
                       /\ board.label = "sweep" => board.len = begun.stored
                       /\ board.label = "ingest" => board.len = Len(begun.assets)
                       /\ board.pos <= board.len
                       /\ board.clock = (InFlight(shown) # 0) /\ board.path = InFlight(shown)
                       /\ InFlight(shown) # 0 => board.pos = InFlight(shown) - 1
  BY DEF BarIsOfItsPhase
<1> DEFINE e == told[shown]
           f == Flying(told, shown)
<1>1. BarIs(begun, board, shown, e, f)
  BY DEF BoardFits, BarFits
<1>2. InFlight(shown) = f
  BY InFlightIs
<1>3. SweepKinds \ {"sweep_completed"} = OpenSweep
  BY DEF SweepKinds, OpenSweep
<1>4. shown \in Nat
  BY DEF ProgressTyped
<1> HIDE DEF e, f
<1>5. shown > 1 => board.label = (IF e.kind \in OpenSweep THEN "sweep" ELSE "ingest")
  BY <1>1, <1>4 DEF BarIs
<1>6. /\ board.label = "sweep" => board.len = begun.stored
      /\ board.label = "ingest" => board.len = Len(begun.assets)
  BY <1>1 DEF BarIs
<1>7. /\ board.pos <= board.len /\ board.clock = (f # 0) /\ board.path = f
      /\ f # 0 => board.pos = f - 1
  BY <1>1 DEF BarIs
<1> QED
  BY <1>2, <1>3, <1>5, <1>6, <1>7 DEF e

\* A run is told as it ended.
LEMMA EndTold ==
  ASSUME ProgressTyped, Located, ToldInv
  PROVE  EndIsTrue
<1> SUFFICES ASSUME NEW i \in Sent({"completed", "aborted"})
             PROVE  IF told[i].kind = "aborted" THEN Pressed
                    ELSE /\ Len(totals.items) = Len(begun.assets)
                         /\ Cardinality(Sent({"sweep_progress"})) = begun.stored
  BY DEF EndIsTrue
<1>1. stage \in Ends /\ i = Len(told)
  BY DEF ToldInv, ToldOfEnd, SentIn, Sent, EndKinds
<1>2. told[i].kind = IF course.stopped THEN "aborted" ELSE "completed"
  BY <1>1 DEF ToldInv, ToldOfEnd
<1>3. stage \in AfterLoop /\ stage \notin LoopStages /\ stage \notin AssetStages
  BY <1>1 DEF AfterLoop, Ends, LoopStages, AssetStages
<1>4. CASE course.stopped
  BY <1>2, <1>4 DEF Located
<1>5. CASE ~course.stopped
  <2>1. Len(totals.items) = course.at /\ course.at = Len(begun.assets)
    BY <1>3, <1>5 DEF Located
  <2>2. Cardinality(SentIn(told, {"sweep_progress"})) = begun.stored
    BY <1>3, <1>5 DEF ToldInv, ToldOfSweep
  <2> QED
    BY <1>2, <1>5, <2>1, <2>2 DEF Sent, SentIn
<1> QED
  BY <1>4, <1>5

\* The log of a run that returned is whole.
LEMMA LogWhole ==
  ASSUME LogFits, LedgerFits
  PROVE  LogIsWhole
<1> SUFFICES ASSUME runLog # Untold
             PROVE  /\ \A k \in runLog.kept, r \in runLog.removed : begun.logs[k] <= begun.logs[r]
                    /\ Cardinality(runLog.kept) <= KeepRecent
                    /\ stage \in {"returned", "reported"} =>
                         LET last == runLog.records[Len(runLog.records)]
                         IN /\ RecordsIn(runLog.records, "summary") = {Len(runLog.records)}
                            /\ Cardinality(RecordsIn(runLog.records, "purge")) = course.purged
                            /\ Cardinality(RecordsIn(runLog.records, "error")) = totals.count["error"]
                            /\ last[4] = totals.count["error"]
                            /\ Cardinality(RecordsIn(runLog.records, "ocr")) = last[5] /\ ledger.ocr = last[5]
                            /\ last[7] # << >> => last[7][1] <= last[7][2] /\ last[7][2] <= last[7][3]
  BY DEF LogIsWhole, RecordsIn
<1>1. LogIs(runLog) /\ (stage # "killed" => RecordsFit(runLog.records) /\ ledger.ocr = totals.pages)
  BY DEF LogFits, LedgerFits
<1> QED
  BY <1>1 DEF LogIs, RecordsFit, Summary

\* Every surface has the same totals.
LEMMA TotalsTold ==
  ASSUME ProgressTyped, ToldInv, ToldOfItems, CountsFit, LedgerFits, PrintedFits
  PROVE  TotalsAgree
<1> SUFFICES ASSUME stage \in {"returned", "reported"} PROVE TotalsAgree
  BY DEF TotalsAgree
<1> DEFINE items == totals.items
           finished == Sent({"asset_finished"})
           ended == told[Len(told)].detail
<1>0. stage \in Ends /\ stage # "killed"
  BY DEF Ends
<1>1. ended = Counts
  BY <1>0 DEF ToldInv, ToldOfEnd
<1>2. Counts.count = totals.count /\ Counts.chunks = totals.chunks
  BY DEF Counts
<1>3. finished = Finishes /\ \A i : {j \in finished : j <= i} = SentUpTo(told, {"asset_finished"}, i)
  BY DEF Finishes, Sent, SentIn, SentUpTo
<1>4. /\ \A k \in ItemKinds : totals.count[k] = Cardinality({i \in DOMAIN items : items[i] = k})
      /\ totals.embedded = IF begun.embeds THEN totals.chunks ELSE 0
  BY DEF CountsFit, CountIn
<1>5. /\ Cardinality(finished) = Len(items)
      /\ \A i \in finished : told[i].detail[1] = items[Cardinality({j \in finished : j <= i})]
  BY <1>3 DEF ToldOfItems
<1>6. totals.chunks = FoldFunction(+, 0, [i \in finished |-> told[i].detail[2]])
  <2>1. totals.chunks = Summed([i \in finished |-> told[i].detail[2]])
    BY <1>3, Zenon DEF ToldOfItems
  <2> QED
    BY <2>1, Zenon DEF Summed
<1>7. /\ ledger.run # Untold => /\ ledger.run.items = items
                                /\ \A k \in DOMAIN ledger.run.count : ledger.run.count[k] = ended.count[k]
      /\ (ledger.job # Untold /\ ledger.job.progress # Untold) =>
           /\ \A k \in DOMAIN ledger.job.progress.count : ledger.job.progress.count[k] = ended.count[k]
           /\ ledger.job.progress.chunks = ended.chunks
  BY <1>0, <1>1, <1>2 DEF LedgerFits, RunRowFits, JobFits, CountsAre
<1>8. printed # Untold => /\ printed.items = items /\ printed.counts = ended
                          /\ printed.purged = Cardinality({i \in Sent({"sweep_progress"}) : told[i].detail = "purged"})
  BY <1>1 DEF PrintedFits, ToldInv, ToldOfSweep, PurgesIn, Sent, SentIn
<1> HIDE DEF ended, finished
<1> QED
  BY <1>1, <1>4, <1>5, <1>6, <1>7, <1>8, Zenon DEF TotalsAgree, finished, ended

\* The slower of two comes first, ties by the lower path.
LEMMA SlowerOrders ==
  ASSUME NEW d \in Seq(Nat \X Nat), \A k, l \in 1 .. Len(d) : d[k][1] = d[l][1] => k = l
  PROVE  OrdersAll([i \in DOMAIN d |-> {j \in DOMAIN d : Slower(d[j], d[i])}], Len(d))
<1> DEFINE n == Len(d)
           ahead == [i \in DOMAIN d |-> {j \in DOMAIN d : Slower(d[j], d[i])}]
<1>1. n \in Nat /\ DOMAIN d = 1 .. n /\ \A i \in 1 .. n : d[i][1] \in Nat /\ d[i][2] \in Nat
  <2>1. n \in Nat /\ DOMAIN d = 1 .. n /\ \A i \in 1 .. n : d[i] \in Nat \X Nat
    OBVIOUS
  <2> QED
    BY <2>1
<1>2. \A i \in 1 .. n : ahead[i] = {j \in 1 .. n : Slower(d[j], d[i])}
  BY <1>1
<1>3. \A k, l \in 1 .. n : d[k][1] = d[l][1] => k = l
  OBVIOUS
<1> HIDE DEF ahead, n
<1>4. \A i \in 1 .. n : ahead[i] \in SUBSET (1 .. n) /\ i \notin ahead[i]
  <2>1. \A i \in 1 .. n : ~Slower(d[i], d[i])
    BY <1>1 DEF Slower
  <2> QED
    BY <1>2, <2>1
<1>5. ASSUME NEW i \in 1 .. n, NEW j \in 1 .. n
      PROVE  i = j \/ i \in ahead[j] \/ j \in ahead[i]
  <2>1. i = j \/ d[i][1] # d[j][1]
    BY <1>3
  <2>2. d[i][1] # d[j][1] => Slower(d[i], d[j]) \/ Slower(d[j], d[i])
    BY <1>1 DEF Slower
  <2> QED
    BY <1>2, <2>1, <2>2
<1>6. ASSUME NEW i \in 1 .. n, NEW j \in 1 .. n, i \in ahead[j], NEW k \in ahead[i]
      PROVE  k \in ahead[j]
  <2>1. k \in 1 .. n /\ Slower(d[k], d[i]) /\ Slower(d[i], d[j])
    BY <1>2, <1>6
  <2>2. Slower(d[k], d[j])
    BY <1>1, <2>1 DEF Slower
  <2> QED
    BY <1>2, <2>1, <2>2
<1>7. OrdersAll(ahead, n)
  BY <1>4, <1>5, <1>6 DEF OrdersAll
<1> QED
  BY <1>7 DEF ahead, n

\* The slowest are as many as are shown, and none that is left out is slower.
LEMMA SlowestIs ==
  ASSUME NEW d \in Seq(Nat \X Nat), \A k, l \in 1 .. Len(d) : d[k][1] = d[l][1] => k = l
  PROVE  /\ Len(Slowest(d)) = Min({Len(d), SlowestTop})
         /\ \A i \in 1 .. Len(d) : \A s \in Range(Slowest(d)) : d[i] \in Range(Slowest(d)) \/ d[i][2] <= s[2]
<1> DEFINE n == Len(d)
           m == Min({n, SlowestTop})
           ahead == [i \in DOMAIN d |-> {j \in DOMAIN d : Slower(d[j], d[i])}]
           a == Arranged(d, ahead)
           b == SubSeq(a, 1, m)
<1>1. n \in Nat /\ DOMAIN d = 1 .. n /\ \A i \in 1 .. n : d[i][1] \in Nat /\ d[i][2] \in Nat
  <2>1. n \in Nat /\ DOMAIN d = 1 .. n /\ \A i \in 1 .. n : d[i] \in Nat \X Nat
    OBVIOUS
  <2> QED
    BY <2>1
<1>2. m \in Nat /\ m <= n
  <2>1. SlowestTop \in Nat
    BY ProgressAssumption
  <2>2. m \in {n, SlowestTop} /\ \A y \in {n, SlowestTop} : m <= y
    <3> DEFINE S == {n, SlowestTop}
    <3>1. \E x \in S : \A y \in S : x <= y
      BY <1>1, <2>1
    <3> HIDE DEF S
    <3>2. Min(S) \in S /\ \A y \in S : Min(S) <= y
      BY <3>1 DEF Min
    <3> QED
      BY <3>2 DEF S
  <2> QED
    BY <1>1, <2>1, <2>2
<1>3. Slowest(d) = b
  BY DEF Slowest
<1>4. \A i, j \in 1 .. n : j \in ahead[i] => d[i][2] <= d[j][2]
  <2>1. \A i \in 1 .. n : ahead[i] = {j \in 1 .. n : Slower(d[j], d[i])}
    BY <1>1
  <2> HIDE DEF ahead, n
  <2>2. ASSUME NEW i \in 1 .. n, NEW j \in 1 .. n, Slower(d[j], d[i])
        PROVE  d[i][2] <= d[j][2]
    BY <1>1, <2>2 DEF Slower
  <2> QED
    BY <2>1, <2>2
<1>5. OrdersAll(ahead, n)
  BY SlowerOrders
<1> HIDE DEF ahead
<1>6. a \in Seq(Nat \X Nat) /\ Len(a) = n /\ \E f : Standing(f, a, d, ahead)
  BY <1>5, ArrangedInOrder
<1>7. PICK f \in [1 .. n -> 1 .. n] : /\ \A k \in 1 .. n : a[k] = d[f[k]]
                                      /\ \A k, l \in 1 .. n : k < l => f[k] \in ahead[f[l]]
                                      /\ \A i \in 1 .. n : \E k \in 1 .. n : f[k] = i
  BY <1>6 DEF Standing
<1> HIDE DEF a, m, n
<1>8. Len(b) = m /\ DOMAIN b = 1 .. m /\ \A k \in 1 .. m : b[k] = a[k] /\ k \in 1 .. n
  BY <1>1, <1>2, <1>6
<1>9. Range(b) = {b[k] : k \in 1 .. m}
  BY <1>8 DEF Range
<1> HIDE DEF b
<1>10. ASSUME NEW i \in 1 .. n, NEW s \in Range(b), d[i] \notin Range(b)
       PROVE  d[i][2] <= s[2]
  <2>1. PICK l \in 1 .. m : s = b[l]
    BY <1>9
  <2>2. PICK k \in 1 .. n : f[k] = i
    BY <1>7
  <2>3. l \in 1 .. n /\ s = d[f[l]] /\ d[i] = a[k]
    BY <1>7, <1>8, <2>1, <2>2
  <2>4. k \notin 1 .. m
    <3>1. k \in 1 .. m => b[k] = d[i]
      BY <1>8, <2>3
    <3> QED
      BY <1>9, <1>10, <3>1
  <2>5. l < k
    BY <1>1, <1>2, <2>4
  <2>6. f[l] \in ahead[f[k]] /\ f[l] \in 1 .. n
    BY <1>7, <2>3, <2>5
  <2> QED
    BY <1>4, <2>2, <2>3, <2>6
<1> QED
  BY <1>3, <1>8, <1>10 DEF m, n

\* The summary names the slowest of all that were timed.
LEMMA SlowestShown ==
  ASSUME ProgressTyped, AllFollow(begun, told), ToldOfEnd, BoardFits
  PROVE  SlowestAreNamed
<1> DEFINE S == Sent({"asset_timings"})
           timed == {<<told[i].idx, told[i].detail>> : i \in S}
           d == board.timed
<1> SUFFICES ASSUME ~begun.json, shown > 0, told[shown].kind = "completed"
             PROVE  /\ Len(board.slowest) = Min({Cardinality(timed), SlowestTop})
                    /\ \A t \in timed \ Range(board.slowest) : \A s \in Range(board.slowest) : t[2] <= s[2]
  BY DEF SlowestAreNamed
<1>1. told \in Seq(Events) /\ DOMAIN told = 1 .. Len(told) /\ Len(told) \in Nat /\ shown \in 1 .. Len(told)
  BY DEF ProgressTyped
<1>2. shown = Len(told)
  <2>1. shown \in SentIn(told, EndKinds)
    BY <1>1 DEF SentIn, EndKinds
  <2> QED
    BY <2>1 DEF ToldOfEnd
<1>3. /\ SentUpTo(told, {"asset_timings"}, shown) = S
      /\ S \in SUBSET (1 .. Len(told)) /\ \A i \in S : told[i].kind = "asset_timings"
  BY <1>1, <1>2 DEF SentUpTo, SentIn, Sent
<1>4. board.slowest = Slowest(d) /\ TimesAre(d, told, shown) /\ d \in Seq(Nat \X Details)
  BY DEF BoardFits, TimesFit, ProgressTyped, BoardIs
<1>5. \A i \in S : told[i].idx \in Nat /\ told[i].detail \in Nat
  <2> SUFFICES ASSUME NEW i \in S PROVE told[i].idx \in Nat /\ told[i].detail \in Nat
    OBVIOUS
  <2>1. i \in 1 .. Len(told) /\ told[i].kind = "asset_timings"
    BY <1>3
  <2>2. told[i] \in Events /\ Follows(begun, told, i - 1, told[i])
    BY <1>1, <2>1 DEF AllFollow
  <2> QED
    BY <2>1, <2>2 DEF Follows, FollowsAsset, Events
<1> HIDE DEF S
<1>6. /\ Len(d) \in Nat /\ Len(d) = Cardinality(S) /\ {d[k] : k \in 1 .. Len(d)} = timed
      /\ \A k, l \in 1 .. Len(d) : d[k][1] = d[l][1] => k = l
  <2>1. Len(d) \in Nat
    <3> HIDE DEF d
    <3> QED
      BY <1>4
  <2>2. /\ Len(d) = Cardinality(S)
        /\ {d[k] : k \in 1 .. Len(d)} = {<<told[i].idx, told[i].detail>> : i \in SentUpTo(told, {"asset_timings"}, shown)}
        /\ \A k, l \in 1 .. Len(d) : d[k][1] = d[l][1] => k = l
    BY <1>3, <1>4 DEF TimesAre
  <2>3. {<<told[i].idx, told[i].detail>> : i \in SentUpTo(told, {"asset_timings"}, shown)} = timed
    BY <1>3
  <2> HIDE DEF d, timed
  <2> QED
    BY <2>1, <2>2, <2>3
<1>7. d \in Seq(Nat \X Nat)
  <2>1. \A t \in timed : t \in Nat \X Nat
    BY <1>5
  <2>2. \A k \in 1 .. Len(d) : d[k] \in timed
    BY <1>6
  <2>3. \A k \in 1 .. Len(d) : d[k] \in Nat \X Nat
    BY <2>1, <2>2
  <2> DEFINE Q == Nat \X Nat
  <2> HIDE DEF timed, Q, d
  <2>4. d = [k \in 1 .. Len(d) |-> d[k]]
    BY <1>4
  <2>5. \A k \in 1 .. Len(d) : d[k] \in Q
    BY <2>3 DEF Q
  <2>6. d \in [1 .. Len(d) -> Q]
    BY <2>4, <2>5
  <2>7. d \in Seq(Q)
    BY <1>6, <2>6
  <2> QED
    BY <2>7 DEF Q
<1> HIDE DEF timed, d
<1>8. /\ Len(Slowest(d)) = Min({Len(d), SlowestTop})
      /\ \A i \in 1 .. Len(d) : \A s \in Range(Slowest(d)) : d[i] \in Range(Slowest(d)) \/ d[i][2] <= s[2]
  BY <1>6, <1>7, SlowestIs
<1>9. Cardinality(timed) = Len(d)
  <2> DEFINE P == 1 .. Len(d)
             g == [k \in P |-> d[k]]
  <2>1. IsFiniteSet(P) /\ Cardinality(P) = Len(d)
    BY <1>6, FS_Interval
  <2>2. g \in Surjection(P, timed) /\ g \in Injection(P, timed)
    <3>1. \A k \in P : g[k] \in timed
      BY <1>6
    <3>2. \A k, l \in P : g[k] = g[l] => k = l
      BY <1>6
    <3>3. \A t \in timed : \E k \in P : g[k] = t
      BY <1>6
    <3>4. g \in [P -> timed]
      BY <3>1
    <3> HIDE DEF g, P
    <3> QED
      BY <3>2, <3>3, <3>4 DEF Injection, Surjection, IsInjective
  <2> HIDE DEF P, g
  <2> QED
    BY <2>1, <2>2, FS_Surjection
<1>10. ASSUME NEW t \in timed, t \notin Range(Slowest(d)), NEW s \in Range(Slowest(d))
       PROVE  t[2] <= s[2]
  <2>1. PICK k \in 1 .. Len(d) : d[k] = t
    BY <1>6
  <2> QED
    BY <1>8, <1>10, <2>1
<1> QED
  BY <1>4, <1>8, <1>9, <1>10

\* A run begins with the invariant.
LEMMA ProgressBegins ==
  ASSUME ProgressInit
  PROVE  ProgressInv
<1>1. /\ begun \in Begins /\ stage = "start" /\ presses = 0 /\ failures = 0 /\ course = FreshCourse
      /\ totals = FreshTotals /\ board = FreshBoard /\ told = << >> /\ shown = 0
      /\ ledger = [job |-> Untold, run |-> Untold, ocr |-> 0] /\ runLog = Untold /\ printed = Untold
  BY DEF ProgressInit
<1>2. Len(<< >>) = 0 /\ 1 .. 0 = {} /\ Cardinality({}) = 0
  BY FS_EmptySet
<1>3. ProgressTyped
  <2>1. FreshCourse \in Courses
    BY DEF FreshCourse, Courses, ItemKinds
  <2>2. FreshTotals \in Totals
    BY DEF FreshTotals, Totals
  <2>3. BoardIs(FreshBoard)
    BY DEF BoardIs, FreshBoard
  <2>4. told \in Seq(Events) /\ shown \in 0 .. Len(told)
    BY <1>1, <1>2
  <2>5. stage \in Stages /\ presses \in 0 .. 2 /\ failures \in Nat
    BY <1>1 DEF Stages, NotBegun
  <2> QED
    BY <1>1, <2>1, <2>2, <2>3, <2>4, <2>5 DEF ProgressTyped
<1>4. totals.items = << >> /\ totals.chunks = 0 /\ totals.embedded = 0 /\ totals.pages = 0
      /\ totals.count = [k \in ItemKinds |-> 0] /\ course.at = 0 /\ course.purged = 0
  BY <1>1 DEF FreshTotals, FreshCourse
<1>5. Located
  <2>1. ~course.stopped
    BY <1>1 DEF FreshCourse
  <2> QED
    BY <1>1, <1>2, <1>4, <2>1 DEF Located, NotBegun, LoopStages, AssetStages, AfterLoop, Ends
<1>6. AllFollow(begun, told)
  BY <1>1 DEF AllFollow
<1>7. \A kinds : SentIn(told, kinds) = {}
  BY <1>1 DEF SentIn
<1>8. PurgesIn(told) = {} /\ Flying(told, Len(told)) = 0
  BY <1>1, <1>2, <1>7, NothingFlies DEF PurgesIn
<1>9. ToldInv
  BY <1>1, <1>2, <1>4, <1>7, <1>8
  DEF ToldInv, ToldSoFar, ToldOfAssets, ToldOfSweep, ToldOfEnd, NotBegun, LoopStages, AssetStages, AfterLoop, Ends
<1>10. ToldOfItems
  <2>1. Finishes = {}
    BY <1>7 DEF Finishes
  <2>2. Summed([i \in Finishes |-> told[i].detail[2]]) = 0
    BY <2>1, SumOfNone
  <2> QED
    BY <1>2, <1>4, <2>1, <2>2 DEF ToldOfItems
<1>11. CountsFit
  <2>1. \A k : CountIn(<< >>, k) = 0
    BY <1>2 DEF CountIn
  <2> QED
    BY <1>4, <2>1 DEF CountsFit
<1>12. BoardFits
  <2>1. SentUpTo(<< >>, {"asset_timings"}, 0) = {}
    BY DEF SentUpTo, SentIn
  <2>2. TimesAre(<< >>, << >>, 0)
    BY <1>2, <2>1 DEF TimesAre
  <2>3. TimesFit
    BY <1>1, <2>2 DEF TimesFit, FreshBoard
  <2>4. Flying(told, shown) = 0
    BY <1>1, NothingFlies
  <2> QED
    BY <1>1, <2>3, <2>4 DEF BoardFits
<1>13. LogFits
  BY <1>1, <1>4 DEF LogFits
<1>14. LedgerFits
  <2>1. ledger.job = Untold /\ ledger.run = Untold /\ ledger.ocr = 0
    BY <1>1
  <2> QED
    BY <1>1, <1>4, <2>1 DEF LedgerFits, JobIs, JobFits, RunRowFits
<1>15. PrintedFits
  BY <1>1 DEF PrintedFits
<1> QED
  BY <1>3, <1>5, <1>6, <1>9, <1>10, <1>11, <1>12, <1>13, <1>14, <1>15 DEF ProgressInv, ToldInv

\* Every step keeps the invariant: each surface by the events or the counters it is made from.
LEMMA ProgressSteps ==
  ASSUME ProgressInv, ProgressNext
  PROVE  ProgressInv'
<1>1. /\ ProgressTyped /\ Located /\ AllFollow(begun, told) /\ ToldInv /\ ToldOfItems /\ CountsFit
      /\ BoardFits /\ LogFits /\ LedgerFits /\ PrintedFits
  BY DEF ProgressInv, ToldInv
<1>2. begun' = begun /\ stage' \in Stages /\ presses' \in 0 .. 2 /\ failures' \in Nat
  BY <1>1, StagesTyped
<1>3. course' \in Courses
  BY <1>1, CourseTyped DEF ProgressTyped
<1>4. totals' \in Totals
  BY <1>1, TotalsTyped DEF ProgressTyped, Located
<1>5. told' \in Seq(Events) /\ shown' \in 0 .. Len(told') /\ AllFollow(begun', told')
  BY <1>1, ToldTyped
<1>6. BoardIs(board') /\ BoardFits'
  BY <1>1, BoardStep
<1>7. ProgressTyped'
  <2>1. BoardIs(board)'
    BY <1>6 DEF BoardIs
  <2>2. begun' \in Begins
    BY <1>1, <1>2 DEF ProgressTyped
  <2> QED
    BY <1>2, <1>3, <1>4, <1>5, <2>1, <2>2 DEF ProgressTyped
<1>8. AllFollow(begun, told)'
  BY <1>5 DEF AllFollow, Follows, FollowsScan, FollowsSweep, FollowsAsset, FollowsEnd, Flying, SentUpTo, SentIn
<1>9. Located'
  BY <1>1, LocatedStep
<1>10. ToldInv'
  BY <1>1, ToldStep
<1>11. ToldOfItems' /\ CountsFit'
  BY <1>1, ItemsStep
<1>12. LogFits'
  BY <1>1, LogStep
<1>13. LedgerFits'
  BY <1>1, LedgerStep
<1>14. PrintedFits'
  BY <1>1, <1>2, PrintedStep
<1> QED
  BY <1>6, <1>7, <1>8, <1>9, <1>10, <1>11, <1>12, <1>13, <1>14 DEF ProgressInv, ToldInv

\* A run tells the truth of itself on every surface.
LEMMA ProgressInvTells ==
  ASSUME ProgressInv
  PROVE  RunIsToldTruly
BY ToldInOrder, BarShown, TotalsTold, EndTold, LogWhole, SlowestShown DEF ProgressInv, ToldInv, RunIsToldTruly

\* A run tells the truth of itself on every surface, whatever fails, is cancelled or lags: the
\* events in their order, the bar in its phase, the counts of report, tables, log and events, the
\* way it ended and the slowest assets named.
THEOREM RunIsAlwaysToldTruly == ProgressSpec => []RunIsToldTruly
<1>1. ProgressInit => ProgressInv
  BY ProgressBegins
<1>2. ProgressInv /\ [ProgressNext]_progressVars => ProgressInv'
  <2> SUFFICES ASSUME ProgressInv, [ProgressNext]_progressVars PROVE ProgressInv'
    OBVIOUS
  <2>1. CASE ProgressNext
    BY <2>1, ProgressSteps
  <2>2. CASE UNCHANGED progressVars
    <3>1. /\ begun' = begun /\ stage' = stage /\ presses' = presses /\ failures' = failures /\ course' = course
          /\ totals' = totals /\ told' = told /\ shown' = shown /\ board' = board /\ ledger' = ledger
          /\ runLog' = runLog /\ printed' = printed
      BY <2>2 DEF progressVars
    <3>2. ProgressTyped'
      BY <3>1 DEF ProgressInv, ProgressTyped, BoardIs
    <3>3. Located'
      BY <3>1 DEF ProgressInv, Located, Pressed
    <3>4. AllFollow(begun, told)'
      <4>1. AllFollow(begun', told')
        BY <3>1 DEF ProgressInv
      <4> QED
        BY <4>1 DEF AllFollow, Follows, FollowsScan, FollowsSweep, FollowsAsset, FollowsEnd, Flying, SentUpTo, SentIn
    <3>5. ToldSoFar' /\ ToldOfAssets' /\ ToldOfSweep' /\ ToldOfEnd'
      BY <3>1 DEF ProgressInv, ToldSoFar, ToldOfAssets, ToldOfSweep, ToldOfEnd, PurgesIn, Flying, SentUpTo, SentIn, Counts
    <3>6. ToldOfItems' /\ CountsFit'
      <4>1. Finishes' = Finishes
        BY <3>1 DEF Finishes, SentIn
      <4>2. [i \in Finishes' |-> told'[i].detail[2]] = [i \in Finishes |-> told[i].detail[2]]
        BY <3>1, <4>1
      <4>3. ToldOfItems'
        BY <3>1, <4>1, <4>2 DEF ProgressInv, ToldOfItems, SentUpTo, SentIn
      <4> QED
        BY <3>1, <4>3 DEF ProgressInv, CountsFit, CountIn
    <3>7. BoardFits'
      BY <3>1 DEF ProgressInv, BoardFits, BarFits, BarIs, TimesFit, TimesAre, Flying, SentUpTo, SentIn
    <3>8. LogFits'
      BY <3>1 DEF ProgressInv, LogFits, LogIs, RecordsFit, RecordsIn, Summary, IsList, Untold
    <3>9. LedgerFits' /\ PrintedFits'
      BY <3>1 DEF ProgressInv, LedgerFits, JobIs, JobFits, RunRowFits, CountsAre, PrintedFits, Counts, Untold
    <3> QED
      BY <3>2, <3>3, <3>4, <3>5, <3>6, <3>7, <3>8, <3>9 DEF ProgressInv
  <2> QED
    BY <2>1, <2>2
<1>3. ProgressInv => RunIsToldTruly
  BY ProgressInvTells
<1> QED
  BY <1>1, <1>2, <1>3, PTL DEF ProgressSpec

=============================================================================
