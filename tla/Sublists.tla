------------------------------ MODULE Sublists ------------------------------
(***************************************************************************)
(* What is left of a list when some elements are taken out of it.  It is   *)
(* SelectSeq, without the recursion that the provers cannot follow.        *)
(***************************************************************************)
EXTENDS Integers, Sequences, FiniteSets

\* The elements of s that are in S, in their order.
Only(s, S) ==
    LET Places == {i \in DOMAIN s : s[i] \in S}
        Place(k) == CHOOSE i \in Places : Cardinality({j \in Places : j <= i}) = k
    IN  [k \in 1 .. Cardinality(Places) |-> s[Place(k)]]

=============================================================================
