-------------------------------- MODULE Lists --------------------------------
(***************************************************************************)
(* The lists that the queue and the tables keep: what Array.filter of      *)
(* ArkTS, remove_if of C++ and their like leave of one.                    *)
(***************************************************************************)
EXTENDS Naturals, Sequences, FiniteSets

\* The elements of l that are in S, in their order in l.  It is SelectSeq,
\* written with the number of elements kept up to a place, not by recursion.
Only(l, S) ==
  LET kept     == {i \in DOMAIN l : l[i] \in S}
      place(i) == Cardinality({j \in kept : j <= i})
  IN  [n \in 1..Cardinality(kept) |-> l[CHOOSE i \in kept : place(i) = n]]

Elems(l) == {l[i] : i \in DOMAIN l}
=============================================================================
