------------------------------ MODULE Positions ------------------------------
(***************************************************************************)
(* The rows of a list at some positions, in their order: what SelectSeq    *)
(* leaves, told by positions, about which the provers have facts.          *)
(***************************************************************************)
EXTENDS Integers, Sequences, FiniteSets

\* The n-th of some positions, and the rows at them.
Nth(S, n) == CHOOSE i \in S : Cardinality({j \in S : j < i}) = n - 1
Only(rows, S) == [n \in 1 .. Cardinality(S) |-> rows[Nth(S, n)]]
=============================================================================
