------------------------------ MODULE MCIngest ------------------------------
(* Values for the constants of Ingest. *)
EXTENDS IngestInv

\* Two paths: the first is markdown where StoreFirst says so.
TwoPaths == {1, 2}
Markdown == {1}
NoMarkdown == {}

\* Each path moves between contents of its own ...
OwnFiles == {<<1, "A">>, <<1, "B">>, <<2, "C">>, <<2, "D">>}
OwnContents == {"A", "B", "C", "D"}
\* ... or both may hold the content T, and are then twins.
TwinFiles == {<<1, "T">>, <<1, "B">>, <<2, "T">>, <<2, "C">>}
TwinContents == {"T", "B", "C"}

OneEmbedder == {[model |-> "m1", version |-> "v1"]}
NoLexical == {}
\* Embeddings may be switched off and on.
NoEmbedder == [model |-> "none", version |-> "none"]
LexicalConfig == {NoEmbedder}
Toggled == OneEmbedder \cup {NoEmbedder}

FullScan == {TwoPaths}
AnyScope == {{1}, TwoPaths}
Plain == {FALSE}
Forced == BOOLEAN

Quiet == {"edit", "config", "cancel"}
Paging == {"edit", "config", "cancel", "search"}
Faulty == {"edit", "config", "race", "crash", "fail", "cancel", "reset"}
EditsOnly == {"edit"}
Failing == {"edit", "fail"}

=============================================================================
