----------------------------- MODULE Ordering -----------------------------
(***************************************************************************)
(* The elements of a set in an order, as the sorts of the readers leave    *)
(* them.  SetToSortSeq of the community modules does the same, but is      *)
(* recursive, which nothing can be proved about.                           *)
(***************************************************************************)
EXTENDS Integers, FiniteSets

\* before[x] is the set of the elements that come before x.
InOrder(before) ==
  [i \in 1..Cardinality(DOMAIN before) |->
     CHOOSE x \in DOMAIN before : Cardinality(before[x]) = i - 1]
=============================================================================
