------------------------------ MODULE Selection ------------------------------
(* What a list comprehension keeps of a list: SelectSeq without recursion,   *)
(* for the proofs.                                                           *)
EXTENDS Naturals, FiniteSets

\* The entries of s at the positions in I, in their order.
InOrder(s, I) ==
    [k \in 1 .. Cardinality(I) |->
        s[CHOOSE i \in I : Cardinality({j \in I : j <= i}) = k]]
=============================================================================
