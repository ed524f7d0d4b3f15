------------------------- MODULE MCDispatchInMemory -------------------------
(***************************************************************************)
(* Instances of DispatchInMemory for TLC; Requests are the ids at hand.    *)
(***************************************************************************)
EXTENDS DispatchInMemory, TLC

CONSTANTS o1, o2, w1, w2, r1, r2, r3

TwoOrders == {o1, o2}
TwoWorkers == {w1, w2}
ThreeIds == {r1, r2, r3}

Symmetry == Permutations(ThreeIds) \cup Permutations(TwoWorkers) \cup Permutations(TwoOrders)
=============================================================================
