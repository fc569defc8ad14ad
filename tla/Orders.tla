-------------------------------- MODULE Orders --------------------------------
\* Finite sets in the order of a strict total order, by counting who comes before:
\* SetToSortSeq of SequencesExt says the same over all permutations, which TLC
\* cannot enumerate for more than a few elements.
EXTENDS Integers, FiniteSets

SortedBy(S, Before(_, _)) ==
    [k \in 1 .. Cardinality(S) |->
        CHOOSE x \in S : Cardinality({y \in S : Before(y, x)}) = k - 1]

===============================================================================
