---------------------------- MODULE Subsequences ----------------------------
(***************************************************************************)
(* What the code writes as a list comprehension with a condition: the      *)
(* elements of a list at some of its positions, in their order.            *)
(***************************************************************************)
EXTENDS Naturals, Sequences, FiniteSets

\* The elements of s at the positions in I.
Kept(s, I) ==
    LET rank(i) == Cardinality({j \in I : j <= i})
    IN [k \in 1..Cardinality(I) |-> s[CHOOSE i \in I : rank(i) = k]]
=============================================================================
