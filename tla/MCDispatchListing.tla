------------------------- MODULE MCDispatchListing -------------------------
(***************************************************************************)
(* Instances of DispatchListing for TLC.                                   *)
(***************************************************************************)
EXTENDS DispatchListing

CONSTANTS h1, h2

TwoHandlers == {h1, h2}

Symmetry == Permutations(TwoHandlers)

\* Unset, below, at and beyond the limits.
BoundaryLimits == {-1, 0, 1, 2, 3}
BoundaryOffsets == {-1, 0}
=============================================================================
