---------------------------- MODULE MCSendBatch ----------------------------
(* SendBatch with a small default size and every cap below it. *)
EXTENDS SendBatch
=============================================================================
