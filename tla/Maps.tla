--------------------------------- MODULE Maps ---------------------------------
(* Maps with keys of their own. *)

\* The entries of both, the first map's where both have one.
Overlaid(f, g) ==
  [x \in DOMAIN f \cup DOMAIN g |-> IF x \in DOMAIN f THEN f[x] ELSE g[x]]

Single(key, value) == [x \in {key} |-> value]

===============================================================================
