------------------------------ MODULE MCFreeze ------------------------------
(* Freeze on a directory of a few files. *)
EXTENDS Freeze, TLC

CONSTANTS blocks, txs, logs, blocksAndTxs, logsAlone, p1, p2, p3, p4, l1, l2, l3

\* One MultiDatatype of two frames and one datatype on its own.
TwoGroups == (blocksAndTxs :> {blocks, txs}) @@ (logsAlone :> {logs})

\* p3 and p4 get the same file names.
SharedLabel == (p1 :> l1) @@ (p2 :> l2) @@ (p3 :> l3) @@ (p4 :> l3)

\* A single partition.
OneLabel == p1 :> l1

LogsOnly == logsAlone :> {logs}

BothOnly == blocksAndTxs :> {blocks, txs}
=============================================================================
