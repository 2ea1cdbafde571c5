-------------------------------- MODULE Ranking --------------------------------
(***************************************************************************)
(* Sorting: ORDER BY of the server's queries and Array.sort of the         *)
(* browser, for orders in which no two members are equal.                  *)
(***************************************************************************)
EXTENDS Naturals, FiniteSets

\* The members of S as a list; `precedes` is the set of the pairs in order.  The i-th
\* member is the one that i - 1 members precede.
Ranked(S, precedes) ==
    [i \in 1 .. Cardinality(S) |->
        CHOOSE x \in S : Cardinality({y \in S : <<y, x>> \in precedes}) = i - 1]
================================================================================
