----------------------------- MODULE Positions -----------------------------
(***************************************************************************)
(* Positions in ascending order.                                            *)
(***************************************************************************)
EXTENDS Integers, FiniteSets

\* The numbers in the finite set S, the least first: what SetToSortSeq of the community
\* modules has for them, by a definition that can be proved about.
Ascending(S) ==
    [n \in 1..Cardinality(S) |-> CHOOSE x \in S : Cardinality({y \in S : y < x}) = n - 1]
=============================================================================
