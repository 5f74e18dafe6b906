------------------------- MODULE MCExtractorLadder -------------------------
(***************************************************************************)
(* ExtractorLadder on small instances.                                     *)
(***************************************************************************)
EXTENDS ExtractorLadder, TLC

TaskSymmetry == Permutations(Chunks) \cup Permutations(Callers)
=============================================================================
