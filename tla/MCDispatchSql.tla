--------------------------- MODULE MCDispatchSql ---------------------------
(***************************************************************************)
(* Instances of DispatchSql for TLC.                                       *)
(***************************************************************************)
EXTENDS DispatchSql, TLC

CONSTANTS o1, o2, w1, w2, r1, r2, r3, r4

OneOrder == {o1}
TwoOrders == {o1, o2}
TwoWorkers == {w1, w2}
ThreeRequests == {r1, r2, r3}
FourRequests == {r1, r2, r3, r4}

EveryHazard == HazardKinds
SerialHazards == HazardKinds \ {"overlap", "crash"}

Symmetry3 == Permutations(ThreeRequests) \cup Permutations(TwoWorkers)
Symmetry4 == Permutations(FourRequests) \cup Permutations(TwoWorkers)
=============================================================================
