----------------------------- MODULE MCMt5Sync -----------------------------
(***************************************************************************)
(* Instances of Mt5Sync for TLC: position p1 is closed by two deals (a      *)
(* partial close and the rest), p2, where present, by one.                 *)
(***************************************************************************)
EXTENDS Mt5Sync, TLC

CONSTANTS p1, p2, d1, d2, d3

OnePosition == {p1}
TwoDeals == {d1, d2}
ClosingP1 == d1 :> p1 @@ d2 :> p1

TwoPositions == {p1, p2}
ThreeDeals == {d1, d2, d3}
ClosingBoth == ClosingP1 @@ d3 :> p2

\* Each position is closed by one deal.
OneDealEach == {d1, d3}
ClosingEach == d1 :> p1 @@ d3 :> p2

\* The two deals of p1 are interchangeable: their order is dealTime.
SwapDeals == Permutations({d1, d2})

============================================================================
