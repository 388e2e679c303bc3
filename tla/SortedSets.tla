----------------------------- MODULE SortedSets -----------------------------
(***************************************************************************)
(* A finite set of numbers as the sequence of its elements in increasing   *)
(* order, without recursion: the n-th element has n - 1 smaller ones.  The *)
(* refinement mappings make the queues of the abstract specifications of   *)
(* it.                                                                     *)
(***************************************************************************)
EXTENDS Naturals, FiniteSets

Rank(S, n) == Cardinality({m \in S : m < n})
Sorted(S) == [i \in 1 .. Cardinality(S) |-> CHOOSE n \in S : Rank(S, n) = i - 1]
=============================================================================
