---------------------------- MODULE MCVectorStore ----------------------------
(* Values for the constants of VectorStore. *)
EXTENDS VectorStore

TwoProcs == {"cli", "mcp"}
ThreeChunks == {"c1", "c2", "c3"}
OwnChunks == [cli |-> {"c1", "c2"}, mcp |-> {"c3"}]
TwoTables == {1, 2}
TwoDims == <<384, 1024>>
\* Two versions of one model, and another model.
ThreeEmbedders == {[table |-> 1, version |-> "v1"], [table |-> 1, version |-> "v2"],
                   [table |-> 2, version |-> "v1"]}

=============================================================================
