-------------------------------- MODULE Places --------------------------------
(* Numbers, as places in a file or names of sessions, in their order.       *)
EXTENDS Integers, FiniteSets

\* The places in S that come before i.
Before(S, i) == {j \in S : j < i}

\* The i-th place in S.
Nth(S, i) == CHOOSE k \in S : Cardinality(Before(S, k)) = i - 1
=============================================================================
