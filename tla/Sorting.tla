------------------------------ MODULE Sorting ------------------------------
(***************************************************************************)
(* Python's sorted(), for keys that are never equal: each element comes    *)
(* after as many others as there are before it.                            *)
(***************************************************************************)
EXTENDS Naturals, FiniteSets

Before(S, R, x) == {y \in S : <<y, x>> \in R}

\* The elements of S, in the order R.
Sorted(S, R) ==
    [k \in 1..Cardinality(S) |-> CHOOSE x \in S : Cardinality(Before(S, R, x)) = k - 1]
=============================================================================
