-------------------------- MODULE MCDispatchServer --------------------------
(***************************************************************************)
(* Instances of DispatchServer for TLC.                                    *)
(***************************************************************************)
EXTENDS DispatchServer

CONSTANTS o1, w1, w2, clerk, r1, r2

OneOrder == {o1}
TwoWorkers == {w1, w2}
TwoIds == {r1, r2}
OneClerk == {clerk}

Caller(u, r) == [user |-> u, role |-> r]

\* Every role the RPCs admit, with each worker and an admin who is one of them,
\* and a header that is blank.
SomeCallers ==
    {Caller(w1, "worker"), Caller(w2, "admin"), Caller(clerk, "customer_service"),
     Caller(Blank, "worker")}

\* Only w1 is in the schedule; w2 is an id nobody there knows.
OneListed == <<[worker |-> w1, skills |-> {"cleaning"}, region |-> "nantong"]>>

\* One filter that w1 passes and one that nobody does.
SomeFilters == {<<"cleaning", Blank>>, <<None, "haimen">>}

\* Unset, below, at and beyond the limits.
BoundaryLimits == {-1, 0, 1, 2, 3}

Symmetry == Permutations(TwoIds)
=============================================================================
