------------------------- MODULE MCCollectPartition -------------------------
(* CollectPartition on small instances. *)
EXTENDS CollectPartition
=============================================================================
