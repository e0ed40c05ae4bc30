------------------------------ MODULE Ascending ------------------------------
(***************************************************************************)
(* A finite set of numbers in ascending order: at each place the number    *)
(* that has as many up to it.                                              *)
(***************************************************************************)
EXTENDS Naturals, FiniteSets

UpTo(i, S) == {j \in S : j <= i}

Ascending(S) ==
  [k \in 1..Cardinality(S) |-> CHOOSE i \in S : Cardinality(UpTo(i, S)) = k]
=============================================================================
