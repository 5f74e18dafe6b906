-------------------------- MODULE ExtractorLadder --------------------------
(***************************************************************************)
(* Every task that consults the state-override memo, running concurrently: *)
(*                                                                         *)
(*   a chunk   extractor_batch_with_fallback (types/state_override.rs):    *)
(*             gate once, then a stack of batches that is halved, drained  *)
(*             to the per-row path, or answered by one verified request;   *)
(*   a caller  read_storage_slots / read_balances (types/sources.rs):      *)
(*             slices its words and calls try_batched once per slice, with *)
(*             the per-word path behind it.                                *)
(*                                                                         *)
(* A row is its index in the task's batch, a batch an interval of rows.    *)
(* Each action is one access to the shared memo, or one await.             *)
(***************************************************************************)
EXTENDS OverrideSupport, Sequences

CONSTANTS
  MaxRows,         \* bound: rows in one task
  CallerBatch,     \* DEFAULT_STATE_OVERRIDE_BATCH_SIZE, 1000 in the code
  BatchOutcomes,   \* what an extractor request may come back as
  PerRowMayFail    \* whether the dataset's own per-row read may fail

(***************************************************************************)
(* The classes the ladder tells apart, in the order it tests them:         *)
(*   verified     decode_response accepted length and sentinel             *)
(*   unavailable  override_unavailable: refused, or taken and ignored      *)
(*   shrinkable   batch_may_shrink_to_fit: too large, transport, decoding  *)
(*   other        anything else, a throttle for example                    *)
(***************************************************************************)
Outcomes == {"verified", "unavailable", "shrinkable", "other"}

ASSUME LadderAssumption ==
  /\ MaxRows \in Nat \ {0}
  /\ CallerBatch \in Nat \ {0}
  /\ BatchOutcomes \subseteq Outcomes
  /\ PerRowMayFail \in BOOLEAN

VARIABLES
  pc,       \* where each task is
  n_rows,   \* rows the task was given
  stack,    \* batches not yet tried, the next one last
  current,  \* the batch in hand
  result,   \* what its request came back as
  rest,     \* rows being read by per_row
  out,      \* how many times each row has been produced
  sent      \* extractor requests the task has sent (a history variable)

taskVars == <<pc, n_rows, stack, current, result, rest, out, sent>>
vars == <<supportVars, taskVars>>

Row == 1 .. MaxRows
Batch == [lo : Row, hi : Row]
NoBatch == [lo |-> 1, hi |-> MaxRows]
RowsOf(b) == b.lo .. b.hi
BatchLen(b) == b.hi - b.lo + 1
Top(s) == s[Len(s)]
Pop(s) == SubSeq(s, 1, Len(s) - 1)

Waiting == {"start", "gate", "acquire", "settle", "recheck"}
Trying == {"await", "release", "interpret", "supported", "ruling"}
Ended == {"done", "failed"}
Points == Waiting \cup Trying \cup {"loop", "per_row"} \cup Ended

TypeOK ==
  /\ SupportTypeOK
  /\ pc \in [Tasks -> Points]
  /\ n_rows \in [Tasks -> Row]
  /\ stack \in [Tasks -> Seq(Batch)]
  /\ current \in [Tasks -> Batch]
  /\ result \in [Tasks -> Outcomes]
  /\ rest \in [Tasks -> SUBSET Row]
  /\ out \in [Tasks -> [Row -> Nat]]
  /\ sent \in [Tasks -> Nat]

Init ==
  /\ SupportInit
  /\ pc = [t \in Tasks |-> "start"]
  /\ n_rows \in [Tasks -> Row]
  /\ stack = [t \in Tasks |-> <<[lo |-> 1, hi |-> n_rows[t]]>>]
  /\ current = [t \in Tasks |-> NoBatch]
  /\ result = [t \in Tasks |-> "other"]
  /\ rest = [t \in Tasks |-> {}]
  /\ out = [t \in Tasks |-> [r \in Row |-> 0]]
  /\ sent = [t \in Tasks |-> 0]

-----------------------------------------------------------------------------
(* Steps the two kinds of task share.                                      *)

Goto(t, point) == pc' = [pc EXCEPT ![t] = point]

At(t, point) == pc[t] = point

Produce(t, rows) ==
  out' = [out EXCEPT ![t] = [r \in Row |-> @[r] + IF r \in rows THEN 1 ELSE 0]]

\* The rows still on the stack.
Pending(t) == UNION {RowsOf(stack[t][i]) : i \in DOMAIN stack[t]}

\* gate_first_attempt, first load: no gate once the verdict is in.
GateLoad(t) ==
  /\ At(t, "gate")
  /\ Goto(t, IF verdict_open THEN "acquire" ELSE "recheck")
  /\ UNCHANGED <<supportVars, n_rows, stack, current, result, rest, out, sent>>

\* first_attempt.acquire().await
GateAcquire(t) ==
  /\ At(t, "acquire")
  /\ acquire_gate(t)
  /\ Goto(t, "settle")
  /\ UNCHANGED <<state, consecutive_failures, n_rows, stack, current, result, rest, out, sent>>

\* gate_first_attempt, second load.
GateSettle(t) ==
  /\ At(t, "settle")
  /\ settle_gate(t)
  /\ Goto(t, "recheck")
  /\ UNCHANGED <<state, consecutive_failures, n_rows, stack, current, result, rest, out, sent>>

\* The request comes back; the endpoint chose the outcome.
Answer(t) ==
  /\ At(t, "await")
  /\ \E o \in BatchOutcomes : result' = [result EXCEPT ![t] = o]
  /\ Goto(t, "release")
  /\ UNCHANGED <<supportVars, n_rows, stack, current, rest, out, sent>>

\* The permit is dropped before the outcome is interpreted.
ReleaseGate(t) ==
  /\ At(t, "release")
  /\ drop_gate(t)
  /\ Goto(t, "interpret")
  /\ UNCHANGED <<state, consecutive_failures, n_rows, stack, current, result, rest, out, sent>>

\* Ok(_): record_supported's first store.
Verified(t) ==
  /\ At(t, "interpret")
  /\ result[t] = "verified"
  /\ reset_failures
  /\ Goto(t, "supported")
  /\ UNCHANGED <<state, first_attempt, n_rows, stack, current, result, rest, out, sent>>

\* record_supported's compare-exchange; the rows are taken from the response.
Supported(t) ==
  /\ At(t, "supported")
  /\ mark_supported
  /\ Produce(t, RowsOf(current[t]))
  /\ Goto(t, IF t \in Callers THEN "start" ELSE "loop")
  /\ UNCHANGED <<first_attempt, consecutive_failures, n_rows, stack, current, result, rest, sent>>

\* per_row / try_join_all of the per-word reads: all of them, or the first error.
PerRowOk(t) ==
  /\ At(t, "per_row")
  /\ Produce(t, rest[t])
  /\ rest' = [rest EXCEPT ![t] = {}]
  /\ Goto(t, IF t \in Callers THEN "start" ELSE "loop")
  /\ UNCHANGED <<supportVars, n_rows, stack, current, result, sent>>

\* `?` on a per-row error leaves the function, which drops a gate still held.
PerRowErr(t) ==
  /\ PerRowMayFail
  /\ At(t, "per_row")
  /\ drop_gate(t)
  /\ Goto(t, "failed")
  /\ UNCHANGED <<state, consecutive_failures, n_rows, stack, current, result, rest, out, sent>>

-----------------------------------------------------------------------------
(* extractor_batch_with_fallback                                           *)

\* Send everything in `rows` down the per-row path and forget the stack.
Drain(t, rows) ==
  /\ rest' = [rest EXCEPT ![t] = rows]
  /\ stack' = [stack EXCEPT ![t] = <<>>]
  /\ Goto(t, "per_row")

ChunkStart(t) ==
  /\ At(t, "start")
  /\ \/ worth_attempting /\ Goto(t, "gate") /\ UNCHANGED <<rest, stack>>
     \/ ~worth_attempting /\ Drain(t, Pending(t))
  /\ UNCHANGED <<supportVars, n_rows, current, result, out, sent>>

\* The second worth_attempting; here the permit is dropped before the fallback.
ChunkRecheck(t) ==
  /\ At(t, "recheck")
  /\ \/ worth_attempting /\ Goto(t, "loop") /\ UNCHANGED <<first_attempt, rest, stack>>
     \/ ~worth_attempting /\ drop_gate(t) /\ Drain(t, Pending(t))
  /\ UNCHANGED <<state, consecutive_failures, n_rows, current, result, out, sent>>

\* The stack is empty: return, which drops a permit still held.
ChunkDone(t) ==
  /\ At(t, "loop")
  /\ stack[t] = <<>>
  /\ drop_gate(t)
  /\ Goto(t, "done")
  /\ UNCHANGED <<state, consecutive_failures, n_rows, stack, current, result, rest, out, sent>>

\* The verdict flipped mid-cascade.  The permit, if held, is NOT dropped here.
ChunkDrain(t) ==
  /\ At(t, "loop")
  /\ stack[t] # <<>>
  /\ ~worth_attempting
  /\ Drain(t, Pending(t))
  /\ UNCHANGED <<supportVars, n_rows, current, result, out, sent>>

ChunkSend(t) ==
  /\ At(t, "loop")
  /\ stack[t] # <<>>
  /\ worth_attempting
  /\ current' = [current EXCEPT ![t] = Top(stack[t])]
  /\ stack' = [stack EXCEPT ![t] = Pop(@)]
  /\ sent' = [sent EXCEPT ![t] = @ + 1]
  /\ Goto(t, "await")
  /\ UNCHANGED <<supportVars, n_rows, result, rest, out>>

\* Mutant: only the batch in hand falls back, the rest of the stack is lost.
MutForgetStack(t) ==
  /\ At(t, "interpret")
  /\ result[t] = "unavailable"
  /\ rule_out
  /\ Drain(t, RowsOf(current[t]))
  /\ UNCHANGED <<first_attempt, consecutive_failures, n_rows, current, result, out, sent>>

ChunkUnavailable(t) ==
  /\ At(t, "interpret")
  /\ result[t] = "unavailable"
  /\ rule_out
  /\ Drain(t, RowsOf(current[t]) \cup Pending(t))
  /\ UNCHANGED <<first_attempt, consecutive_failures, n_rows, current, result, out, sent>>

\* Right half first, so that the left half is popped next.
Halve(t) ==
  LET b == current[t]
      mid == b.lo + BatchLen(b) \div 2
  IN stack' = [stack EXCEPT ![t] =
                 @ \o <<[lo |-> mid, hi |-> b.hi], [lo |-> b.lo, hi |-> mid - 1]>>]

AfterFailure(t) ==
  \/ /\ result[t] = "shrinkable" /\ BatchLen(current[t]) > 1
     /\ Halve(t)
     /\ Goto(t, "loop")
     /\ UNCHANGED rest
  \/ /\ ~(result[t] = "shrinkable" /\ BatchLen(current[t]) > 1)
     /\ rest' = [rest EXCEPT ![t] = RowsOf(current[t])]
     /\ Goto(t, "per_row")
     /\ UNCHANGED stack

\* record_silent_failure's fetch_add; below the limit it is the whole call.
ChunkSilentFailure(t) ==
  /\ At(t, "interpret")
  /\ result[t] \in {"shrinkable", "other"}
  /\ count_failure
  /\ \/ failure_limit_reached /\ Goto(t, "ruling") /\ UNCHANGED <<rest, stack>>
     \/ ~failure_limit_reached /\ AfterFailure(t)
  /\ UNCHANGED <<state, first_attempt, n_rows, current, result, out, sent>>

\* The rule_out that ends record_silent_failure at the limit.
ChunkRuling(t) ==
  /\ At(t, "ruling")
  /\ rule_out
  /\ AfterFailure(t)
  /\ UNCHANGED <<first_attempt, consecutive_failures, n_rows, current, result, out, sent>>

-----------------------------------------------------------------------------
(* read_storage_slots / read_balances over try_batched                     *)

CallerDone(t) ==
  /\ At(t, "start")
  /\ stack[t] = <<>>
  /\ Goto(t, "done")
  /\ UNCHANGED <<supportVars, n_rows, stack, current, result, rest, out, sent>>

\* chunks(batch_size): the next slice, and what the iterator has left.
NextSlice(t) ==
  LET b == Top(stack[t])
      cut == b.lo + CallerBatch - 1
      whole == b.hi <= cut
  IN /\ current' = [current EXCEPT ![t] = [lo |-> b.lo, hi |-> IF whole THEN b.hi ELSE cut]]
     /\ stack' = [stack EXCEPT ![t] = IF whole THEN <<>> ELSE <<[lo |-> cut + 1, hi |-> b.hi]>>]

CallerStart(t) ==
  /\ At(t, "start")
  /\ stack[t] # <<>>
  /\ NextSlice(t)
  /\ \/ worth_attempting /\ Goto(t, "gate") /\ UNCHANGED rest
     \/ /\ ~worth_attempting
        /\ rest' = [rest EXCEPT ![t] = RowsOf(current'[t])]
        /\ Goto(t, "per_row")
  /\ UNCHANGED <<supportVars, n_rows, result, out, sent>>

CallerRecheck(t) ==
  /\ At(t, "recheck")
  /\ \/ /\ worth_attempting
        /\ sent' = [sent EXCEPT ![t] = @ + 1]
        /\ Goto(t, "await")
        /\ UNCHANGED <<first_attempt, rest>>
     \/ /\ ~worth_attempting
        /\ drop_gate(t)
        /\ rest' = [rest EXCEPT ![t] = RowsOf(current[t])]
        /\ Goto(t, "per_row")
        /\ UNCHANGED sent
  /\ UNCHANGED <<state, consecutive_failures, n_rows, stack, current, result, out>>

\* Any failure means None; only override_unavailable touches the memo.
CallerFailure(t) ==
  /\ At(t, "interpret")
  /\ result[t] # "verified"
  /\ IF result[t] = "unavailable" THEN rule_out ELSE UNCHANGED state
  /\ rest' = [rest EXCEPT ![t] = RowsOf(current[t])]
  /\ Goto(t, "per_row")
  /\ UNCHANGED <<first_attempt, consecutive_failures, n_rows, stack, current, result, out, sent>>

-----------------------------------------------------------------------------
SharedStep(t) ==
  \/ GateLoad(t) \/ GateAcquire(t) \/ GateSettle(t)
  \/ Answer(t) \/ ReleaseGate(t) \/ Verified(t) \/ Supported(t)
  \/ PerRowOk(t) \/ PerRowErr(t)

ChunkStep(t) ==
  \/ ChunkStart(t) \/ ChunkRecheck(t) \/ ChunkDone(t) \/ ChunkDrain(t)
  \/ ChunkSend(t) \/ ChunkUnavailable(t) \/ ChunkSilentFailure(t) \/ ChunkRuling(t)

CallerStep(t) ==
  \/ CallerDone(t) \/ CallerStart(t) \/ CallerRecheck(t) \/ CallerFailure(t)

Finished ==
  /\ \A t \in Tasks : pc[t] \in Ended
  /\ UNCHANGED vars

Next ==
  \/ \E t \in Tasks : SharedStep(t)
  \/ \E t \in Chunks : ChunkStep(t)
  \/ \E t \in Callers : CallerStep(t)
  \/ Finished

Spec == Init /\ [][Next]_vars

(***************************************************************************)
(* The runtime polls a ready task again and a request ends (it answers or  *)
(* its client times out), so no enabled step is postponed for ever.  Weak  *)
(* fairness per task is enough: a task takes the permit at most once per   *)
(* slice, so a waiter is overtaken finitely often even without tokio's     *)
(* FIFO semaphore.                                                         *)
(***************************************************************************)
Fairness ==
  /\ \A t \in Tasks : WF_vars(SharedStep(t))
  /\ \A t \in Chunks : WF_vars(ChunkStep(t))
  /\ \A t \in Callers : WF_vars(CallerStep(t))

FairSpec == Spec /\ Fairness

-----------------------------------------------------------------------------
(***************************************************************************)
(* A task whose first extractor request is out while the verdict is still  *)
(* UNKNOWN holds the only permit of first_attempt, so before the first     *)
(* answer at most one task is discovering the endpoint.  (Every request of *)
(* a caller is a first one: try_batched passes the gate for each slice.    *)
(* The later requests of a chunk's cascade are not gated.)                 *)
(***************************************************************************)
FirstAttempt(t) == pc[t] = "await" /\ (t \in Callers \/ sent[t] = 1)

FirstAttemptGated ==
  \A t \in Tasks : FirstAttempt(t) /\ state = "UNKNOWN" => first_attempt = t

(***************************************************************************)
(* The permit is never leaked: whoever holds it is between the acquire of  *)
(* gate_first_attempt and its release, never a task that has returned and  *)
(* never one that is interpreting an answer.                               *)
(***************************************************************************)
GateHolder == {"settle", "recheck", "loop", "await", "release", "per_row"}

NoLeakedPermit ==
  first_attempt # NoTask => pc[first_attempt] \in GateHolder

(***************************************************************************)
(* A task that returns Ok has produced each of its rows exactly once,      *)
(* whatever mixture of verified batches, halving, draining and per-row     *)
(* reads it went through.                                                  *)
(***************************************************************************)
EveryRowOnce ==
  \A t \in Tasks : pc[t] = "done" =>
    \A r \in Row : out[t][r] = IF r <= n_rows[t] THEN 1 ELSE 0

(***************************************************************************)
(* rule_out is irreversible: a batch that was in flight when another task  *)
(* ruled the endpoint out does not undo it through record_supported, and a *)
(* settled verdict never reopens the gate.                                 *)
(***************************************************************************)
VerdictLatches ==
  [][/\ state = "RULED_OUT" => state' = "RULED_OUT"
     /\ state # "UNKNOWN" => state' # "UNKNOWN"]_vars

(***************************************************************************)
(* What an endpoint that never verifies a batch costs: the failures below  *)
(* the silent-failure limit, plus one request per chunk, that is, the one  *)
(* each chunk had out when the limit was reached.  This is the bound the   *)
(* consecutive_failures backstop is for; without it a chunk of n rows      *)
(* sends 2n - 1 requests.  It is about endpoints that never verify, and    *)
(* about fewer chunks at once than would wrap the u8 counter between its   *)
(* reaching the limit and the store of RULED_OUT.                          *)
(***************************************************************************)
ChunkRequests == UNION {{t} \X (1 .. sent[t]) : t \in Chunks}

DoomedCost ==
  "verified" \notin BatchOutcomes /\ SilentFailureLimit + Cardinality(Chunks) <= CounterModulus =>
    Cardinality(ChunkRequests) <= SilentFailureLimit - 1 + Cardinality(Chunks)

(***************************************************************************)
(* "A batch failure is a routing decision, never an outcome": when the     *)
(* per-row path works, every task returns Ok whatever the endpoint answers *)
(* to the batches, and no task waits at the gate for ever.                 *)
(***************************************************************************)
EveryTaskAnswers == \A t \in Tasks : <>(pc[t] = "done")
=============================================================================
