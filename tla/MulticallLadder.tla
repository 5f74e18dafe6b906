-------------------------- MODULE MulticallLadder --------------------------
(***************************************************************************)
(* multicall_collect_by_block for the rows of one block: they are cut into *)
(* aggregate3 batches by inner calls, and multicall_batch_with_fallback    *)
(* takes each batch down a stack of halves to single rows, which the       *)
(* dataset's own eth_call path (extract) decides.  Rows before the         *)
(* Multicall3 deployment go to extract at once.                            *)
(*                                                                         *)
(* The batches are spawned as tasks that share nothing; one of them is     *)
(* followed here, whichever it is.                                         *)
(***************************************************************************)
EXTENDS Integers, Sequences, SequencesExt

CONSTANTS
  MaxRows,      \* bound: rows of the block
  BatchSizes,   \* values of --multicall-batch-size
  CallsPerRow   \* inner calls of one row, constant per dataset

ASSUME MulticallAssumption ==
  /\ MaxRows \in Nat \ {0}
  /\ BatchSizes \subseteq Nat
  /\ CallsPerRow \subseteq Nat

VARIABLES
  require_success,  \* --multicall-require-success
  deployed,         \* the block is not before the chain's Multicall3
  calls,            \* inner calls per row
  budget,           \* inner calls per request
  reverts,          \* rows whose contract refuses: a fact of the chain
  batch,            \* the rows of the task that is followed
  stack, current,
  out,              \* rows answered, in order, each with its answer
  pc,
  sent              \* aggregate3 requests (a history variable)

vars == <<require_success, deployed, calls, budget, reverts, batch, stack, current, out, pc,
          sent>>
input == <<require_success, deployed, calls, budget, reverts, batch>>

\* Mutant: the budget is taken for a number of rows.
MutBudgetIsRows(batch_size, calls_per_row) == batch_size

\* Rows are whole: a row whose calls exceed the budget still goes out.
rows_per_batch(batch_size, calls_per_row) ==
  LET per_row == IF calls_per_row = 0 THEN 1 ELSE calls_per_row
      rows == batch_size \div per_row
  IN IF rows = 0 THEN 1 ELSE rows

Run(lo, hi) == [i \in 1 .. hi - lo + 1 |-> lo + i - 1]

\* The batches of rows 1 .. n: slice::chunks.
Batches(n, size) ==
  {Run(lo, IF lo + size - 1 <= n THEN lo + size - 1 ELSE n) :
     lo \in {l \in 1 .. n : (l - 1) % size = 0}}

Init ==
  /\ require_success \in BOOLEAN
  /\ deployed \in BOOLEAN
  /\ calls \in CallsPerRow
  /\ budget \in BatchSizes \ {0}
  /\ reverts \in SUBSET (1 .. MaxRows)
  /\ batch \in UNION {IF deployed THEN Batches(n, rows_per_batch(budget, calls))
                                  ELSE {<<i>> : i \in 1 .. n} : n \in 1 .. MaxRows}
  /\ stack = <<batch>>
  /\ current = <<>>
  /\ out = <<>>
  /\ pc = IF deployed THEN "loop" ELSE "extract"
  /\ sent = 0

Answer(r) == [row |-> r, null |-> r \in reverts]

\* while let Some(current) = stack.pop(): one aggregate3 request.
Send ==
  /\ pc = "loop"
  /\ stack # <<>>
  /\ current' = Last(stack)
  /\ stack' = Front(stack)
  /\ sent' = sent + 1
  /\ pc' = "await"
  /\ UNCHANGED <<input, out>>

\* Mutant: the loop does not end with the stack.
MutSpin ==
  /\ pc = "loop"
  /\ stack = <<>>
  /\ UNCHANGED vars

Return ==
  /\ pc = "loop"
  /\ stack = <<>>
  /\ pc' = "ok"
  /\ UNCHANGED <<input, stack, current, out, sent>>

\* With require_success an inner revert is the revert of the whole aggregate.
Aggregates == require_success => \A i \in DOMAIN current : current[i] \notin reverts

Answered ==
  /\ pc = "await"
  /\ Aggregates
  /\ out' = out \o [i \in DOMAIN current |-> Answer(current[i])]
  /\ pc' = "loop"
  /\ UNCHANGED <<input, stack, current, sent>>

\* Mutant: the right half is popped first.
MutRightFirst ==
  LET mid == Len(current) \div 2
  IN /\ stack' = stack \o <<SubSeq(current, 1, mid), SubSeq(current, mid + 1, Len(current))>>
     /\ pc' = "loop"
     /\ UNCHANGED <<current, out>>

\* Left half last, so that it is popped next.
Halve ==
  LET mid == Len(current) \div 2
  IN /\ stack' = stack \o <<SubSeq(current, mid + 1, Len(current)), SubSeq(current, 1, mid)>>
     /\ pc' = "loop"
     /\ UNCHANGED <<current, out>>

\* The four error arms, in their order.
Refused(shrinks) ==
  \/ shrinks /\ Len(current) > 1 /\ Halve
  \/ /\ \/ ~shrinks /\ Len(current) > 1
        \/ Len(current) = 1 /\ require_success
     /\ pc' = "err"
     /\ UNCHANGED <<stack, current, out>>
  \/ /\ Len(current) = 1 /\ ~require_success
     /\ pc' = "extract"
     /\ UNCHANGED <<stack, current, out>>

\* batch_may_shrink_to_fit: size, gas, timeout, transport, an undecodable answer.
MayShrink ==
  /\ pc = "await"
  /\ Refused(TRUE)
  /\ UNCHANGED <<input, sent>>

\* A throttle, pruned state, a rejected key, the aggregate's own revert.
Unshrinkable ==
  /\ pc = "await"
  /\ Refused(FALSE)
  /\ UNCHANGED <<input, sent>>

TheRow == IF deployed THEN current[1] ELSE batch[1]

\* Mutant: contract_read takes every failure for a refusal.
MutNodeFailureIsNull ==
  /\ pc = "extract"
  /\ \E null \in BOOLEAN : out' = Append(out, [row |-> TheRow, null |-> null])
  /\ pc' = IF deployed THEN "loop" ELSE "ok"
  /\ UNCHANGED <<input, stack, current, sent>>

\* extract_by_eth_call through contract_read: a refusal is a null.
ExtractOk ==
  /\ pc = "extract"
  /\ out' = Append(out, Answer(TheRow))
  /\ pc' = IF deployed THEN "loop" ELSE "ok"
  /\ UNCHANGED <<input, stack, current, sent>>

\* The node cannot answer: the error leaves the task.
ExtractErr ==
  /\ pc = "extract"
  /\ pc' = "err"
  /\ UNCHANGED <<input, stack, current, out, sent>>

Stop == pc \in {"ok", "err"} /\ UNCHANGED vars

Step == Send \/ Return \/ Answered \/ MayShrink \/ Unshrinkable \/ ExtractOk \/ ExtractErr

Next == Step \/ Stop

Spec == Init /\ [][Next]_vars

\* Every request ends.
FairSpec == Spec /\ WF_vars(Step)

-----------------------------------------------------------------------------
(***************************************************************************)
(* Through any halving and demotion the rows come out in the order they    *)
(* went in, none lost and none repeated: the left half is retried first.   *)
(***************************************************************************)
RowsInOrder ==
  /\ IsPrefix([i \in DOMAIN out |-> out[i].row], batch)
  /\ pc = "ok" => Len(out) = Len(batch)

(***************************************************************************)
(* A null says that the contract refused, never that the node failed, and  *)
(* a contract that refused is never given a value.                         *)
(***************************************************************************)
NullMeansRefused == \A i \in DOMAIN out : out[i].null <=> out[i].row \in reverts

(***************************************************************************)
(* With --multicall-require-success a batch that returns has no null in    *)
(* it, whatever size it was halved to on the way.  (Rows before the        *)
(* deployment are in no batch.)                                            *)
(***************************************************************************)
StrictBatchesHaveNoNulls ==
  require_success /\ deployed => \A i \in DOMAIN out : ~out[i].null

(***************************************************************************)
(* Halving n rows down to singles takes at most 2n - 1 requests, and a     *)
(* request never carries more inner calls than the budget unless it is a   *)
(* single row.                                                             *)
(***************************************************************************)
RequestsAreBounded ==
  /\ sent <= 2 * Len(batch) - 1
  /\ pc = "await" => Len(current) * calls <= budget \/ Len(current) = 1

\* The task returns.
TaskReturns == <>(pc \in {"ok", "err"})

(***************************************************************************)
(* The nulls of a batch are exactly the refusals, and a strict batch has   *)
(* none.                                                                   *)
(***************************************************************************)
NullsAreTrue == NullMeansRefused /\ StrictBatchesHaveNoNulls
=============================================================================
