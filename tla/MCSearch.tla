----------------------------- MODULE MCSearch -----------------------------
(* Values for the constants of Search. *)
EXTENDS Search

ThreeChunks == {1, 2, 3}
TwoHits == {2}
SmallPages == {1, 2}

Query(m, passing, glob) == [mode |-> m, matching |-> passing, globbed |-> glob]
PlainHybrid == {Query("hybrid", ThreeChunks, FALSE)}
\* Each retriever alone, with filters that pass everything or drop chunk 2, as
\* a path_glob or in SQL; and both together.
AllQueries ==
  {Query(m, passing, glob) : m \in {"lexical", "vector"},
                             passing \in {ThreeChunks, {1, 3}}, glob \in BOOLEAN}
  \cup PlainHybrid

=============================================================================
