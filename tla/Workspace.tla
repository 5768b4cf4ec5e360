------------------------------- MODULE Workspace ------------------------------
(***************************************************************************)
(* Which files the index holds: the scan of one or several roots, the      *)
(* sweep of the documents whose files are gone, and kebab ingest-file and  *)
(* ingest-stdin, which copy their bytes to <root>/_external and scan only  *)
(* the copy.                                                               *)
(*                                                                         *)
(* A root is what a walk of it yields, links followed, before any filter:  *)
(* a sequence of entries in directory order.  A path is relative to the    *)
(* root of its scan, as workspace_path is, and real is the file or         *)
(* directory an entry leads to.  Every file has bytes of its own (files of *)
(* equal content are Ingest's), and is in a format that is indexed.  Files *)
(* and settings change between commands; changes during a run are Ingest's.*)
(***************************************************************************)
EXTENDS Integers, FiniteSets, Sequences, SequencesExt, Functions, Maps

CONSTANTS
  Roots,        \* the directories that may be sources
  Arrangements, \* [Roots -> the sets of sequences of entries that may be below each]
  SourceChoices,  \* the values of workspace.sources: sequences of Roots
  ExcludeSets,  \* the values of workspace.exclude: sets of paths
  Arguments,    \* what ingest-file is given: [bytes, fits], fits as to type and extension
  StdinBodies,       \* what ingest-stdin is given: [wrapped, fenced]
  Half,         \* [contents -> what an interrupted write leaves of them]
  MaxCommands, MaxEdits, MaxSetbacks

\* The root that _external is in stays the first.
ASSUME OnePrimary == \A l, m \in SourceChoices : l # << >> /\ Head(l) = Head(m)

External == "_external"
Paths == Seq(STRING)  \* by their components

\* A directory that the walk has come to before, if only at the root.
Revisited(tree, j) ==
  tree[j].dir /\ (tree[j].real = << >> \/ \E i \in 1 .. j - 1 : tree[i].dir /\ tree[i].real = tree[j].real)

OncePerPath(tree) == \A i, j \in DOMAIN tree : tree[i].path = tree[j].path => i = j

\* Below a directory reached again lie files that the walk has come to below it before.
Mirrored(tree) ==
  \A j, k \in DOMAIN tree :
    Revisited(tree, j) /\ IsStrictPrefix(tree[j].path, tree[k].path) /\ ~tree[k].dir =>
      \E l \in 1 .. k - 1 : ~tree[l].dir /\ tree[l].real = tree[k].real /\ tree[l].bytes = tree[k].bytes

\* _external is a directory of its own, to which no link leads.
ExternalApart(tree) ==
  \A i \in DOMAIN tree :
    /\ tree[i].path # << >> /\ Head(tree[i].path) # External
    /\ tree[i].real = << >> \/ Head(tree[i].real) # External

ASSUME WsAssumption ==
  /\ External \notin Roots
  /\ \A root \in Roots :
       /\ Arrangements[root] \subseteq
            Seq([path : Paths, real : Paths, dir : BOOLEAN, bytes : STRING, marks : SUBSET STRING])
       /\ \A tree \in Arrangements[root] : OncePerPath(tree) /\ Mirrored(tree) /\ ExternalApart(tree)
  /\ SourceChoices \subseteq Seq(Roots)
  /\ Arguments \subseteq [bytes : STRING, fits : BOOLEAN]
  /\ StdinBodies \subseteq [wrapped : STRING, fenced : BOOLEAN]
  /\ \A body \in DOMAIN Half : Half[body] \in STRING

VARIABLES
  below,     \* what is below each root
  outside,   \* _external: name, which is the hash of the bytes it is for -> its bytes
  ignoring,  \* .kebabignore of the primary root has the line _external/
  sources,   \* workspace.sources
  excludes,  \* workspace.exclude
  stored,    \* documents: workspace_path -> [bytes, from], from the root of its scan
  command,   \* the command under way
  reported,   \* of the last command, if nothing changed since
  lost,      \* the roots of documents purged while their files existed
  commands, edits, setbacks

wsVars == <<below, outside, ignoring, sources, excludes, stored, command, reported, lost, commands,
            edits, setbacks>>

Idle == [at |-> "idle"]
NoReport == [is |-> "none"]
Primary == Head(sources)  \* resolve_workspace_root

WsInit ==
  /\ below \in [Roots -> UNION {Arrangements[r] : r \in Roots}]
  /\ \A r \in Roots : below[r] \in Arrangements[r]
  /\ outside = << >> /\ ignoring = FALSE
  /\ sources \in SourceChoices /\ excludes \in ExcludeSets
  /\ stored = << >>
  /\ command = Idle /\ reported = NoReport /\ lost = {}
  /\ commands = 0 /\ edits = 0 /\ setbacks = 0

-----------------------------------------------------------------------------
(* The walk of one root. *)

OutsideFile(prefix, name) ==
  [path |-> Append(prefix, name), real |-> <<External, name>>, dir |-> FALSE,
   bytes |-> outside[name], marks |-> {}]

OutsideFiles(prefix) == {OutsideFile(prefix, name) : name \in DOMAIN outside}

\* _external is a directory of the primary root.
Entries(root) ==
  CASE root = External -> SetToSeq(OutsideFiles(<< >>))
    [] root = Primary /\ outside # << >> ->
         below[root] \o << [path |-> <<External>>, real |-> <<External>>, dir |-> TRUE, bytes |-> "",
                            marks |-> IF ignoring THEN {"kebabignore"} ELSE {}] >>
                     \o SetToSeq(OutsideFiles(<<External>>))
    [] OTHER -> below[root]

OnDisk(root, path) == \E e \in Range(Entries(root)) : e.path = path

\* By a default, an ignore file or a setting.
Excluded(e, unwanted) ==
  e.marks \cap {"default", "kebabignore", "builtin", "gitignore"} # {} \/ e.path \in unwanted

\* classify_skip, by priority.
Category(e) ==
  IF "builtin" \in e.marks THEN "builtin"
  ELSE IF "gitignore" \in e.marks THEN "gitignore"
  ELSE IF "kebabignore" \in e.marks THEN "kebabignore" ELSE "other"

\* Only code files are held to a header and a size.
Unfit(e) == "code" \in e.marks /\ e.marks \cap {"generated", "oversized"} # {}
Misfit(e) == IF "generated" \in e.marks THEN "generated" ELSE "size_exceeded"

\* An excluded directory is not entered, and no directory is entered twice.
Skip(walk, e, category) ==
  [walk EXCEPT !.skipped = @ \cup {[real |-> e.real, category |-> category]}]
Prune(walk, e) == [walk EXCEPT !.pruned = @ \cup {e.path}]
Enter(walk, e) ==
  IF e.real \in walk.visited THEN Prune(walk, e) ELSE [walk EXCEPT !.visited = @ \cup {e.real}]

\* names is scope.include; what it leaves out is not counted as skipped.
Take(walk, e, names) ==
  IF names # {} /\ e.path \notin names THEN walk
  ELSE IF Unfit(e) THEN Skip(walk, e, Misfit(e))
  ELSE [walk EXCEPT !.accepted = @ \cup {e}]

Visit(walk, e, unwanted, names) ==
  IF \E d \in walk.pruned : IsStrictPrefix(d, e.path) THEN walk
  ELSE IF Excluded(e, unwanted) THEN Prune(Skip(walk, e, Category(e)), e)
  ELSE IF e.dir THEN Enter(walk, e)
  ELSE Take(walk, e, names)

\* walk_files_with_skips, then the checks of scan_with_skips.
WalkTree(entries, unwanted, names) ==
  LET walked[i \in 0 .. Len(entries)] ==
        IF i = 0 THEN [accepted |-> {}, skipped |-> {}, pruned |-> {}, visited |-> {<< >>}]
                 ELSE Visit(walked[i - 1], entries[i], unwanted, names)
  IN walked[Len(entries)]

Walk(root, names) == WalkTree(Entries(root), excludes, names)

\* build_assets: a path with a # is no WorkspacePath, and its file is left out with a warning.
Scanned(root, names) ==
  {[path |-> e.path, bytes |-> e.bytes, from |-> root] :
     e \in {f \in Walk(root, names).accepted : "unnameable" \notin f.marks}}

-----------------------------------------------------------------------------
(* The commands. *)

Start(next) ==
  /\ command = Idle /\ commands < MaxCommands
  /\ commands' = commands + 1
  /\ command' = next
  /\ reported' = NoReport
  /\ UNCHANGED <<below, outside, ignoring, sources, excludes, stored, lost, edits, setbacks>>

ScanOf(roots, names) == [at |-> "scan", roots |-> roots, names |-> names]

\* kebab ingest, over every source.
IngestAll == Start(ScanOf(sources, {}))

\* kebab ingest --root.
IngestRoot(root) == Start(ScanOf(<<root>>, {}))

\* kebab ingest-file of a file of a supported type, and ingest-stdin of a body without a
\* front matter of its own; anything else is refused before anything is touched.
IngestFile(argument) ==
  argument.fits /\ Start([at |-> "prepare", bytes |-> argument.bytes, stdin |-> FALSE])
IngestStdin(body) ==
  ~body.fenced /\ Start([at |-> "prepare", bytes |-> body.wrapped, stdin |-> TRUE])

\* ensure_external_dir and ensure_kebabignore_entry.
PrepareExternal ==
  /\ command.at = "prepare"
  /\ ignoring' = TRUE
  /\ command' = [command EXCEPT !.at = "copy"]
  /\ UNCHANGED <<below, outside, sources, excludes, stored, reported, lost, commands, edits, setbacks>>

\* copy_to_external: a file of that name is taken as it is.  ingest-stdin goes on as an
\* ingest-file of its copy.
CopyToExternal ==
  /\ command.at = "copy"
  /\ outside' = Overlaid(outside, Single(command.bytes, command.bytes))
  /\ command' = IF command.stdin
                THEN [at |-> "prepare", bytes |-> outside'[command.bytes], stdin |-> FALSE]
                ELSE ScanOf(<<External>>, {<<command.bytes>>})
  /\ UNCHANGED <<below, ignoring, sources, excludes, stored, reported, lost, commands, edits, setbacks>>

\* The scan of every root of the command; what is stored and was not
\* scanned is a candidate of the sweep.
Scan ==
  /\ command.at = "scan"
  /\ LET todo == [i \in DOMAIN command.roots |-> Scanned(command.roots[i], command.names)]
         scanned == {a.path : a \in UNION Range(todo)}
     IN command' = [at |-> "sweep", roots |-> command.roots, names |-> command.names, todo |-> todo,
                    stale |-> DOMAIN stored \ scanned, failed |-> FALSE,
                    skipped |-> UNION {Walk(r, command.names).skipped : r \in Range(command.roots)}]
  /\ UNCHANGED <<below, outside, ignoring, sources, excludes, stored, reported, lost, commands, edits,
                 setbacks>>

ThereInScope(path) == path \in {a.path : a \in Scanned(Primary, {})}
\* Whatever root a document is of, its file is looked for below the primary root.
StillThere(path) == OnDisk(Primary, path)

\* sweep_deleted_files, one candidate.
SweepPath(path) ==
  /\ command.at = "sweep" /\ path \in command.stale
  /\ command' = [command EXCEPT !.stale = @ \ {path}]
  /\ IF StillThere(path)
     THEN UNCHANGED <<stored, lost>>
     ELSE /\ stored' = Restrict(stored, DOMAIN stored \ {path})
          /\ lost' = IF OnDisk(stored[path].from, path)
                     THEN lost \cup {stored[path].from} ELSE lost
  /\ UNCHANGED <<below, outside, ignoring, sources, excludes, reported, commands, edits, setbacks>>

\* The sources one after the other; within one the code goes by path, which nothing here
\* depends on.
Due(i, asset) ==
  /\ command.at = "sweep" /\ command.stale = {}
  /\ asset \in command.todo[i] /\ \A j \in 1 .. i - 1 : command.todo[j] = {}

Done(i, asset) == [command.todo EXCEPT ![i] = @ \ {asset}]

\* ingest_one_asset; a document of the same bytes is unchanged, and keeps its source.
IndexAsset(i, asset) ==
  /\ Due(i, asset)
  /\ stored' = IF asset.path \in DOMAIN stored /\ stored[asset.path].bytes = asset.bytes
               THEN stored
               ELSE Overlaid(Single(asset.path, [bytes |-> asset.bytes, from |-> asset.from]), stored)
  /\ command' = [command EXCEPT !.todo = Done(i, asset)]
  /\ UNCHANGED <<below, outside, ignoring, sources, excludes, reported, lost, commands, edits, setbacks>>

EndRun ==
  /\ command.at = "sweep" /\ command.stale = {}
  /\ \A i \in DOMAIN command.todo : command.todo[i] = {}
  /\ reported' = [is |-> "done", roots |-> command.roots, names |-> command.names,
                 failed |-> command.failed, skipped |-> command.skipped]
  /\ command' = Idle
  /\ UNCHANGED <<below, outside, ignoring, sources, excludes, stored, lost, commands, edits, setbacks>>

-----------------------------------------------------------------------------
(* What goes wrong, and the user. *)

\* The purge of a document or the ingest of an asset fails; the run goes on.
StepFails ==
  /\ setbacks < MaxSetbacks /\ setbacks' = setbacks + 1
  /\ \/ \E path \in command.stale :
          command' = [command EXCEPT !.stale = @ \ {path}, !.failed = TRUE]
     \/ \E i \in DOMAIN command.todo : \E asset \in command.todo[i] :
          Due(i, asset) /\ command' = [command EXCEPT !.todo = Done(i, asset), !.failed = TRUE]
  /\ UNCHANGED <<below, outside, ignoring, sources, excludes, stored, reported, lost, commands, edits>>

\* The command is cancelled or killed, or fails as a whole; in the middle of the copy it
\* leaves a part of the file under the name of the whole.
Interrupt ==
  /\ command # Idle
  /\ setbacks < MaxSetbacks /\ setbacks' = setbacks + 1
  /\ command' = Idle
  /\ outside' \in {outside} \cup
       IF command.at = "copy" /\ command.bytes \in DOMAIN Half
       THEN {Overlaid(outside, Single(command.bytes, Half[command.bytes]))} ELSE {}
  /\ UNCHANGED <<below, ignoring, sources, excludes, stored, reported, lost, commands, edits>>

Change ==
  /\ command = Idle /\ reported' = NoReport
  /\ edits < MaxEdits /\ edits' = edits + 1
  /\ UNCHANGED <<outside, stored, command, lost, commands, setbacks>>

Rearrange(root, entries) ==
  /\ below' = [below EXCEPT ![root] = entries]
  /\ Change /\ UNCHANGED <<ignoring, sources, excludes>>

Reconfigure(list, set) ==
  /\ sources' = list /\ excludes' = set
  /\ Change /\ UNCHANGED <<below, ignoring>>

\* The line is taken out of .kebabignore again.
Unignore ==
  /\ ignoring /\ ignoring' = FALSE
  /\ Change /\ UNCHANGED <<below, sources, excludes>>

WsNext ==
  \/ IngestAll
  \/ \E root \in Roots : IngestRoot(root)
  \/ \E argument \in Arguments : IngestFile(argument)
  \/ \E body \in StdinBodies : IngestStdin(body)
  \/ PrepareExternal \/ CopyToExternal \/ Scan
  \/ command.at = "sweep" /\ \/ \E path \in command.stale : SweepPath(path)
                             \/ \E i \in DOMAIN command.todo : \E asset \in command.todo[i] : IndexAsset(i, asset)
                             \/ StepFails
  \/ EndRun
  \/ Interrupt
  \/ \E root \in Roots : \E entries \in Arrangements[root] : Rearrange(root, entries)
  \/ \E list \in SourceChoices, set \in ExcludeSets : Reconfigure(list, set)
  \/ Unignore

WsSpec == WsInit /\ [][WsNext]_wsVars

-----------------------------------------------------------------------------

RunFinished == command = Idle /\ reported.is = "done" /\ ~reported.failed

\* What was scanned last at a path.
LastAt(path) ==
  LET n == Len(reported.roots)
      has == {i \in 1 .. n : \E a \in Scanned(reported.roots[i], reported.names) : a.path = path}
  IN reported.roots[CHOOSE i \in has : \A j \in has : j <= i]

\* The report counts the entry, or the file of one is hidden by a default or a setting.
Counted(d) == \E s \in reported.skipped : s.category # "other" /\ s.real = d.real
Hidden(d) == "default" \in d.marks \/ d.path \in excludes

\* A run that finished without a failure accounts for every file of its roots by one of the ways
\* it is reached: its bytes are stored, from this root or from one with a file at the same path
\* scanned after it, or the file or a directory on the way is counted or hidden, or the path
\* has a # and was warned of.
FilesAreAccountedFor ==
  RunFinished /\ reported.names = {} =>
    \A i \in DOMAIN reported.roots : LET root == reported.roots[i] IN
      \A e \in {f \in Range(Entries(root)) : ~f.dir} :
        \E f \in Range(Entries(root)) :
          /\ f.real = e.real
          /\ \/ "unnameable" \in f.marks
             \/ \E d \in Range(Entries(root)) : IsPrefix(d.path, f.path) /\ (Counted(d) \/ Hidden(d))
             \/ f.path \in DOMAIN stored /\ (stored[f.path].bytes = e.bytes \/ LastAt(f.path) # root)

\* After such a run no document is left of a file that was deleted.
NothingIsLeftOver ==
  RunFinished => \A p \in DOMAIN stored :
    \/ OnDisk(Primary, p)
    \/ \E i \in DOMAIN reported.roots : \E a \in Scanned(reported.roots[i], reported.names) : a.path = p

\* A file given to ingest-file is in the index as it was given, unless workspace.exclude
\* matches the name of its copy or an interrupted copy lies there.
GivenFilesAreStored ==
  RunFinished => \A name \in reported.names :
    name \in excludes \/ (name \in DOMAIN stored /\ stored[name].bytes = outside[name[1]])

\* The sweep never purges a document whose file is still below the primary root.  (It does
\* purge those of other roots and of _external: see FilesOnDiskStay.)
PrimaryIsKept == Primary \notin lost

\* The index follows the files, through the order of scan, sweep and ingest, links between
\* directories, ignore rules that change, failures and interruptions.
IndexFollowsTheTree ==
  FilesAreAccountedFor /\ NothingIsLeftOver /\ GivenFilesAreStored /\ PrimaryIsKept

\* "Only purge when the file is TRULY absent from disk" (ingest.rs, before the sweep).
FilesOnDiskStay == lost = {}

=============================================================================
