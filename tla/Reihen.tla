------------------------------- MODULE Reihen -------------------------------
(***************************************************************************)
(* Sequences the pipeline builds by sorting and by picking: both are       *)
(* defined without recursion, so that proofs can use what they say.        *)
(***************************************************************************)
EXTENDS Integers, FiniteSets, Sequences

\* The members of a finite set in ascending order.
Sortiert(S, vor(_, _)) ==
    CHOOSE s \in [1..Cardinality(S) -> S] :
        \A i, j \in 1..Cardinality(S) : i < j => vor(s[i], s[j])

\* What stands at the places I of a sequence, in the same order.
Ausgewaehlt(q, I) == [i \in 1..Cardinality(I) |-> q[Sortiert(I, <)[i]]]
=============================================================================
