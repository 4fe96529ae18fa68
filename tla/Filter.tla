------------------------------- MODULE Filter -------------------------------
(***************************************************************************)
(* What is left of a list when only some values are kept, in their order   *)
(* (the filter of an array): written by the places of those values, the    *)
(* n-th of which becomes the n-th place.                                    *)
(***************************************************************************)
EXTENDS Naturals, Sequences, FiniteSets

Places(s, T) == {i \in DOMAIN s : s[i] \in T}

(* how many of a set of places are not behind i *)
Rank(I, i) == Cardinality({j \in I : j <= i})

Sifted(s, T) ==
  LET I == Places(s, T)
  IN  [n \in 1 .. Cardinality(I) |-> s[CHOOSE i \in I : Rank(I, i) = n]]
=============================================================================
