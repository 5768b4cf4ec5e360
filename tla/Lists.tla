-------------------------------- MODULE Lists --------------------------------
(* Lists cut down to some of their elements, in their order. *)
EXTENDS Naturals, Sequences, FiniteSets

\* The elements of a list at some of its positions.
Picked(s, at) ==
  [k \in 1..Cardinality(at) |-> s[CHOOSE i \in at : Cardinality({j \in at : j <= i}) = k]]

\* The elements of a list that belong to a set.
OnlyIn(s, ok) == Picked(s, {i \in 1..Len(s) : s[i] \in ok})

\* A list by how many of its positions come before each, no two having the same number.
Arranged(s, before) == [k \in DOMAIN s |-> s[CHOOSE i \in DOMAIN s : Cardinality(before[i]) = k - 1]]

=============================================================================
