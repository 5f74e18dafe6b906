------------------------- MODULE MCMulticallLadder -------------------------
(* MulticallLadder on a block of a few rows. *)
EXTENDS MulticallLadder
=============================================================================
