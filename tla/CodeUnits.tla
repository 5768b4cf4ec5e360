------------------------------ MODULE CodeUnits ------------------------------
(***************************************************************************)
(* The tree-sitter extractors: from the syntax tree of a source file to    *)
(* the units whose lines become its code blocks.  The nodes of nine        *)
(* grammars are reduced to what the extractors do with them:               *)
(*   "def"     a named function, method, type, macro: a unit               *)
(*   "class"   a named type with a body that is walked as well             *)
(*   "impl"    Rust's impl block, of which only the functions are units    *)
(*   "scope"   a Rust mod or C++ namespace with a body: no unit of its own *)
(*   "group"   Go's type ( ... ), a unit for each spec                     *)
(*   "wrap"    a C++ template or extern "C" block around its body          *)
(*   "import"  an import, a re-export, a bodyless Rust mod                 *)
(*   "value"   a constant, variable or statement the extractor keeps       *)
(*   "comment", "attr" (Rust attribute, TypeScript decorator), "other"     *)
(* The parser is external: nodes come in order, and a node may begin on    *)
(* the line on which the one before it ends.                               *)
(***************************************************************************)
EXTENDS Naturals, Sequences, FiniteSets, FiniteSetsExt, SequencesExt

CONSTANTS
  Languages,    \* a subset of the nine
  SyntaxTrees(_) \* the files of a language: sequences of [is, from, to, body]

VARIABLES
  codeLang, codeTree,
  codeUnits  \* [real, label, scope, from, to]

unitVars == <<codeLang, codeTree, codeUnits>>

UnitInit == codeLang = "none" /\ codeTree = << >> /\ codeUnits = << >>

-----------------------------------------------------------------------------

CFamily == {"c", "cpp"}

\* The siblings that unit_start climbs over: the unit begins with them.
Folds(lang) == {"comment"} \cup (IF lang \in {"rust", "typescript"} THEN {"attr"} ELSE {})

UnitStart(lang, nodes, i) ==
  Min({nodes[k].from : k \in {k \in 1 .. i : \A j \in k .. i - 1 : nodes[j].is \in Folds(lang)}})

\* What waits between units: [module, from, to].
IsGlue(lang, is) ==
  IF lang \in CFamily THEN is \in {"comment", "import", "value", "other"}
  ELSE \/ is = "import"
       \/ is = "value" /\ lang \notin {"java", "kotlin"}
       \/ is = "attr" /\ lang = "rust"

\* Mutant: glue that ends in the unit goes, not only glue that begins in it.
RetainEnded(glue, lang, start) ==
  IF lang \in CFamily THEN glue ELSE SelectSeq(glue, LAMBDA g : g.to < start)

\* A comment or attribute that the unit begins with is not emitted a second time.
Retain(glue, lang, start) ==
  IF lang \in CFamily THEN glue ELSE SelectSeq(glue, LAMBDA g : g.from < start)

\* The provisional <module>: imports only.
GlueLabel(lang, glue) ==
  IF lang \notin CFamily /\ \A k \in DOMAIN glue : glue[k].module THEN "<module>" ELSE "<top-level>"

FlushGlue(st, lang, scope) ==
  IF st.glue = << >> THEN st
  ELSE [glue |-> << >>,
        units |-> Append(st.units,
          [real |-> FALSE, label |-> GlueLabel(lang, st.glue),
           scope |-> IF lang \in CFamily THEN 0 ELSE scope,
           from |-> Min({st.glue[k].from : k \in DOMAIN st.glue}),
           to   |-> Max({st.glue[k].to   : k \in DOMAIN st.glue})])]

Cleared(st, lang, scope, start) ==
  FlushGlue([st EXCEPT !.glue = Retain(@, lang, start)], lang, scope)

PushUnit(st, scope, start, end) ==
  [st EXCEPT !.units = Append(@, [real |-> TRUE, label |-> "def", scope |-> scope, from |-> start, to |-> end])]

PushGlue(st, is, start, end) ==
  [st EXCEPT !.glue = Append(@, [module |-> is = "import", from |-> start, to |-> end])]

-----------------------------------------------------------------------------
(* The walks *)

\* Runs Step over the numbers 1 .. n.
WalkOver(n, st, Step(_, _)) ==
  LET upTo[i \in 0 .. n] == IF i = 0 THEN st ELSE Step(upTo[i - 1], i) IN upTo[n]

\* A node without a body, in a scope whose glue is kept.
Leaf(lang, nodes, scope, st, i) ==
  LET start == UnitStart(lang, nodes, i) IN
  CASE nodes[i].is = "def"        -> PushUnit(Cleared(st, lang, scope, start), scope, start, nodes[i].to)
    [] IsGlue(lang, nodes[i].is)  -> PushGlue(st, nodes[i].is, start, nodes[i].to)
    [] OTHER                      -> st

\* Python classes, Rust mods, C++ classes and namespaces: as at the top of the file.
WalkScope(lang, nodes, scope, st) ==
  FlushGlue(WalkOver(Len(nodes), st, LAMBDA s, i : Leaf(lang, nodes, scope, s, i)), lang, scope)

\* Java, Kotlin, JavaScript and TypeScript classes and Rust impls: the definitions only.
WalkMembers(lang, nodes, scope, st) ==
  WalkOver(Len(nodes), st, LAMBDA s, i :
    IF nodes[i].is = "def" THEN PushUnit(s, scope, UnitStart(lang, nodes, i), nodes[i].to) ELSE s)

\* One spec begins where the declaration does, several where they do.
WalkSpecs(lang, specs, start, st) ==
  WalkOver(Len(specs), st, LAMBDA s, i :
    LET from == IF Len(specs) = 1 THEN start ELSE specs[i].from
    IN PushUnit(Cleared(s, lang, 0, from), 0, from, specs[i].to))

\* A template or a linkage block: neither its scope nor its glue is its own.
WalkWrapped(lang, nodes, st) ==
  WalkOver(Len(nodes), st, LAMBDA s, i : Leaf(lang, nodes, 0, s, i))

ClearedAt(lang, nodes, st, i) == Cleared(st, lang, 0, UnitStart(lang, nodes, i))

UnitOf(lang, nodes, st, i) ==
  PushUnit(ClearedAt(lang, nodes, st, i), 0, UnitStart(lang, nodes, i), nodes[i].to)

\* A class and its methods: the walks of java, kotlin, javascript and typescript.
ClassUnits(lang, nodes, st, i) ==
  IF nodes[i].is = "class" THEN WalkMembers(lang, nodes[i].body, i, UnitOf(lang, nodes, st, i))
  ELSE Leaf(lang, nodes, 0, st, i)

TopRust(nodes, st, i) ==
  CASE nodes[i].is = "impl"  -> WalkMembers("rust", nodes[i].body, i, ClearedAt("rust", nodes, st, i))
    [] nodes[i].is = "scope" -> WalkScope("rust", nodes[i].body, i, FlushGlue(st, "rust", 0))
    [] OTHER -> Leaf("rust", nodes, 0, st, i)

TopPython(nodes, st, i) ==
  IF nodes[i].is = "class" THEN WalkScope("python", nodes[i].body, i, UnitOf("python", nodes, st, i))
  ELSE Leaf("python", nodes, 0, st, i)

TopGo(nodes, st, i) ==
  IF nodes[i].is = "group" THEN WalkSpecs("go", nodes[i].body, UnitStart("go", nodes, i), st)
  ELSE Leaf("go", nodes, 0, st, i)

TopJava(nodes, st, i)       == ClassUnits("java", nodes, st, i)
TopKotlin(nodes, st, i)     == ClassUnits("kotlin", nodes, st, i)
TopJavascript(nodes, st, i) == ClassUnits("javascript", nodes, st, i)
TopTypescript(nodes, st, i) == ClassUnits("typescript", nodes, st, i)
TopC(nodes, st, i)          == Leaf("c", nodes, 0, st, i)

TopCpp(nodes, st, i) ==
  CASE nodes[i].is = "class" -> WalkScope("cpp", nodes[i].body, i, UnitOf("cpp", nodes, st, i))
    [] nodes[i].is = "scope" -> WalkScope("cpp", nodes[i].body, i, FlushGlue(st, "cpp", 0))
    [] nodes[i].is = "wrap"  -> WalkWrapped("cpp", nodes[i].body, st)
    [] OTHER -> Leaf("cpp", nodes, 0, st, i)

Top(lang, nodes, st, i) ==
  CASE lang = "rust"       -> TopRust(nodes, st, i)
    [] lang = "python"     -> TopPython(nodes, st, i)
    [] lang = "go"         -> TopGo(nodes, st, i)
    [] lang = "java"       -> TopJava(nodes, st, i)
    [] lang = "kotlin"     -> TopKotlin(nodes, st, i)
    [] lang = "javascript" -> TopJavascript(nodes, st, i)
    [] lang = "typescript" -> TopTypescript(nodes, st, i)
    [] lang = "c"          -> TopC(nodes, st, i)
    [] lang = "cpp"        -> TopCpp(nodes, st, i)

\* <module> is left where the file has no definition; C gives an empty file one <module>.
Relabel(lang, units, lastLine) ==
  LET real == \E k \in DOMAIN units : units[k].real
      Label(u) == IF u.real THEN u.label ELSE IF real THEN "<top-level>"
                  ELSE IF lang \in CFamily THEN "<module>" ELSE u.label
  IN IF units = << >> /\ lang \in CFamily
     THEN <<[real |-> FALSE, label |-> "<module>", scope |-> 0, from |-> 1, to |-> lastLine]>>
     ELSE [k \in DOMAIN units |-> [units[k] EXCEPT !.label = Label(units[k])]]

BuildBlocks(lang, nodes) ==
  LET walked == WalkOver(Len(nodes), [units |-> << >>, glue |-> << >>],
                         LAMBDA st, i : Top(lang, nodes, st, i))
  IN Relabel(lang, FlushGlue(walked, lang, 0).units, IF nodes = << >> THEN 1 ELSE Last(nodes).to)

ExtractCode ==
  /\ codeLang = "none"
  /\ \E lang \in Languages : \E nodes \in SyntaxTrees(lang) :
       codeLang' = lang /\ codeTree' = nodes /\ codeUnits' = BuildBlocks(lang, nodes)

UnitNext == ExtractCode

UnitSpec == UnitInit /\ [][UnitNext]_unitVars

-----------------------------------------------------------------------------
(* Properties *)

InUnit(line) == \E k \in DOMAIN codeUnits : line \in codeUnits[k].from .. codeUnits[k].to

NodeAt(at) == IF at[2] = 0 THEN codeTree[at[1]] ELSE codeTree[at[1]].body[at[2]]

\* Where the nodes the extractor keeps are: at the top, or in a body it walks.
UnitNodes ==
  LET keepsGlue(i) == codeTree[i].is \in {"scope", "wrap"} \/ codeLang \in {"python", "cpp"}
  IN {at \in UNION {{<<i, j>> : j \in 0 .. Len(codeTree[i].body)} : i \in DOMAIN codeTree} :
        \/ NodeAt(at).is \in {"def", "class"}
        \/ IsGlue(codeLang, NodeAt(at).is) /\ (at[2] = 0 \/ keepsGlue(at[1]))}

\* The lines that a Rust impl begins with belong to no unit.
BeforeImpl ==
  {line \in 1 .. Last(codeTree).to : \E i \in DOMAIN codeTree :
     codeTree[i].is = "impl" /\ line \in UnitStart(codeLang, codeTree, i) .. codeTree[i].from}

\* What the extractors keep stays findable: every line of a definition, an import or a value
\* is in a unit, whatever comments share its line and whatever follows it (but for the lines
\* a Rust impl begins with); each definition is one unit; a group between definitions and a
\* definition of the same scope share at most the line where they meet, C's comments apart;
\* and <module> stands in a file without definitions only.
UnitsAreTheFile ==
  codeLang # "none" /\ codeTree # << >> =>
    /\ \A at \in UnitNodes : \A line \in NodeAt(at).from .. NodeAt(at).to :
         InUnit(line) \/ line \in BeforeImpl
    /\ Cardinality({k \in DOMAIN codeUnits : codeUnits[k].real})
         = Cardinality({at \in UnitNodes : NodeAt(at).is \in {"def", "class"}})
    /\ \A k, m \in DOMAIN codeUnits :
         codeUnits[k].real /\ ~codeUnits[m].real /\ codeUnits[k].scope = codeUnits[m].scope
           /\ codeLang \notin CFamily =>
           \/ codeUnits[m].to <= codeUnits[k].from
           \/ codeUnits[k].to <= codeUnits[m].from
    /\ \A k, m \in DOMAIN codeUnits : ~(codeUnits[k].label = "<module>" /\ codeUnits[m].real)
=============================================================================
