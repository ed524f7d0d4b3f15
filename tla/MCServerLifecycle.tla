------------------------- MODULE MCServerLifecycle -------------------------
(***************************************************************************)
(* An instance of ServerLifecycle for TLC.                                 *)
(***************************************************************************)
EXTENDS ServerLifecycle

CONSTANTS c1, c2, c3

ThreeCalls == {c1, c2, c3}
=============================================================================
