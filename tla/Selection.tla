------------------------------- MODULE Selection -------------------------------
(***************************************************************************)
(* The elements of a sequence at chosen places, in the order they have     *)
(* there: what SelectSeq and SetToSortSeq do, in a form that can be proved *)
(* about.                                                                  *)
(***************************************************************************)
EXTENDS Naturals, FiniteSets

\* The members of a finite set of numbers, ascending.
InOrder(S) ==
  CHOOSE s \in [1..Cardinality(S) -> S] : \A i, j \in DOMAIN s : i < j => s[i] < s[j]

\* The elements of s at the places I.
Selected(s, I) == [n \in 1..Cardinality(I) |-> s[InOrder(I)[n]]]
==============================================================================
