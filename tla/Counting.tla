------------------------------ MODULE Counting ------------------------------
(***************************************************************************)
(* Counts, sums and orders of finite sets, all in terms of Cardinality and *)
(* without recursion.                                                      *)
(***************************************************************************)
EXTENDS Integers, Sequences, FiniteSets

\* How often x occurs in the sequence s.
Occurrences(x, s) == Cardinality({k \in DOMAIN s : s[k] = x})

\* The sum of the natural numbers f[k], k in S, as the size of a disjoint
\* union of sets of these sizes.
SumOver(f, S) == Cardinality(UNION {{k} \X (1 .. f[k]) : k \in S})

\* The numbers of S, the smallest first: the n-th has n - 1 below it.
Ordered(S) ==
    [n \in 1 .. Cardinality(S) |->
        CHOOSE x \in S : Cardinality({y \in S : y < x}) = n - 1]
=============================================================================
