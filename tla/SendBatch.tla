----------------------------- MODULE SendBatch -----------------------------
(***************************************************************************)
(* Source::send_batch: one logical batch of identical calls over as few    *)
(* HTTP requests as the provider will take, and batch_with_fallback of the *)
(* rpc-batch runner over it, which reads the rows one at a time when the   *)
(* batch fails.                                                            *)
(*                                                                         *)
(* A call's answer is a value, a null, or an error of its own.  The result *)
(* type of some callers has a place for a null (Option), of others not     *)
(* (trace_transactions_batch's Vec).                                       *)
(***************************************************************************)
EXTENDS Integers, Sequences, FiniteSets

CONSTANTS
  MaxCalls,     \* bound: calls in one logical batch
  DefaultSize,  \* DEFAULT_RPC_BATCH_SIZE, 100 in the code
  Faults        \* what may go wrong other than a cap on the batch size

ASSUME SendBatchAssumption ==
  /\ MaxCalls \in Nat
  /\ DefaultSize \in Nat \ {0}
  /\ Faults \subseteq {"param", "envelope", "item", "decode", "per_row"}

VARIABLES
  n,         \* calls to make
  cap,       \* largest batch the provider takes; 0 refuses even one call
  nulls,     \* calls it answers with null
  optional,  \* the result type has a place for a null
  runner,    \* called by the rpc-batch runner, which falls back
  size, sent, out,
  pc,
  cause,     \* what ended the call with an error
  refusals   \* size complaints answered by halving (a history variable)

vars == <<n, cap, nulls, optional, runner, size, sent, out, pc, cause, refusals>>
input == <<n, cap, nulls, optional, runner>>

Init ==
  /\ n \in 0 .. MaxCalls
  /\ cap \in 0 .. DefaultSize
  /\ nulls \in SUBSET (1 .. n)
  /\ optional \in BOOLEAN
  /\ runner \in BOOLEAN
  /\ size = DefaultSize
  /\ sent = 0
  /\ out = <<>>
  /\ pc = "loop"
  /\ cause = "none"
  /\ refusals = 0

End == IF sent + size <= n THEN sent + size ELSE n
InHand == sent + 1 .. End

Result(i) == [call |-> i, null |-> i \in nulls]

Fail(why) ==
  /\ pc' = IF runner THEN "fallback" ELSE "err"
  /\ cause' = why
  /\ UNCHANGED <<input, size, sent, out, refusals>>

\* A row without the parameter the call needs: the runner does not try the batch.
Unencodable ==
  /\ "param" \in Faults
  /\ pc = "loop" /\ sent = 0 /\ size = DefaultSize
  /\ runner
  /\ Fail("param")

\* One request that is answered in full, results in request order.
Accepted ==
  /\ pc = "loop" /\ sent < n
  /\ Cardinality(InHand) <= cap
  /\ InHand \cap nulls = {} \/ optional
  /\ out' = out \o [i \in 1 .. End - sent |-> Result(sent + i)]
  /\ sent' = End
  /\ UNCHANGED <<input, size, pc, cause, refusals>>

\* Mutant: the size is taken down by one.
MutShrinkByOne ==
  /\ pc = "loop" /\ sent < n
  /\ Cardinality(InHand) > cap
  /\ size > 1
  /\ size' = size - 1
  /\ refusals' = refusals + 1
  /\ UNCHANGED <<input, sent, out, pc, cause>>

\* Mutant: rounding down, with the guard that kept the size positive dropped.
MutHalveDown ==
  /\ pc = "loop" /\ sent < n
  /\ Cardinality(InHand) > cap
  /\ size' = size \div 2
  /\ refusals' = refusals + 1
  /\ UNCHANGED <<input, sent, out, pc, cause>>

\* batch_too_large: halve, rounding up, and keep the size from then on.  Any
\* failure that mentions the batch is taken for a complaint about its size.
TooLarge ==
  /\ pc = "loop" /\ sent < n
  /\ Cardinality(InHand) > cap \/ {"envelope", "item"} \cap Faults # {}
  /\ size > 1
  /\ size' = (size + 1) \div 2
  /\ refusals' = refusals + 1
  /\ UNCHANGED <<input, sent, out, pc, cause>>

\* A size complaint about a single call propagates.
TooLargeForOne ==
  /\ pc = "loop" /\ sent < n
  /\ Cardinality(InHand) > cap
  /\ size <= 1
  /\ Fail("size")

\* A throttle, a rejected key, a dead node.
EnvelopeErr ==
  /\ "envelope" \in Faults
  /\ pc = "loop" /\ sent < n
  /\ Fail("envelope")

\* waiter.await?: one call's own error, or a null that has no place, is the batch's.
ItemErr ==
  /\ pc = "loop" /\ sent < n
  /\ Cardinality(InHand) <= cap
  /\ \E i \in InHand : "item" \in Faults \/ (i \in nulls /\ ~optional)
  /\ Fail("item")

Return ==
  /\ pc = "loop" /\ sent >= n
  /\ pc' = "ok"
  /\ UNCHANGED <<input, size, sent, out, cause, refusals>>

\* decode_row of an answer that arrived: an error here is not a reason to fall back.
DecodeErr ==
  /\ "decode" \in Faults
  /\ pc = "loop" /\ sent >= n
  /\ runner
  /\ pc' = "err"
  /\ cause' = "decode"
  /\ UNCHANGED <<input, size, sent, out, refusals>>

\* Mutant: the rows that were already read stay in the answer.
MutFallbackAppends ==
  /\ pc = "fallback"
  /\ out' = out \o [i \in 1 .. n |-> Result(i)]
  /\ pc' = "ok"
  /\ UNCHANGED <<input, size, sent, cause, refusals>>

\* try_join_all of extract over ALL rows: what the batch had read is dropped.
FallbackOk ==
  /\ pc = "fallback"
  /\ out' = [i \in 1 .. n |-> Result(i)]
  /\ pc' = "ok"
  /\ UNCHANGED <<input, size, sent, cause, refusals>>

FallbackErr ==
  /\ "per_row" \in Faults
  /\ pc = "fallback"
  /\ pc' = "err"
  /\ cause' = "per_row"
  /\ UNCHANGED <<input, size, sent, out, refusals>>

Stop == pc \in {"ok", "err"} /\ UNCHANGED vars

Step == Accepted \/ TooLarge \/ TooLargeForOne \/ ItemErr \/ Return \/ FallbackOk

Fault == Unencodable \/ EnvelopeErr \/ DecodeErr \/ FallbackErr

Next == Step \/ Fault \/ Stop

Spec == Init /\ [][Next]_vars

\* Every request ends; a fault is never owed.
FairSpec == Spec /\ WF_vars(Step)

-----------------------------------------------------------------------------
(***************************************************************************)
(* What send_batch has returned is at every moment a prefix of the answers *)
(* in request order, across every change of size, and all of them at the   *)
(* end, a failed batch read row by row included.                           *)
(***************************************************************************)
ResultsInRequestOrder ==
  /\ \A i \in DOMAIN out : i <= n /\ out[i] = Result(i)
  /\ pc = "ok" => Len(out) = n

(***************************************************************************)
(* Discovering the provider's cap costs at most ceil(log2(DefaultSize))    *)
(* refused requests for the whole call, however many batches it takes.     *)
(***************************************************************************)
DiscoveryIsLogarithmic == refusals > 0 => 2 ^ (refusals - 1) < DefaultSize

(***************************************************************************)
(* A provider that takes batches of any size at all, down to one, is read: *)
(* a cap alone never fails the call.                                       *)
(***************************************************************************)
AnyCapIsRead == pc = "err" /\ cause = "size" => cap = 0

(***************************************************************************)
(* The call returns: the size cannot stop shrinking short of one.          *)
(***************************************************************************)
CallReturns == <>(pc \in {"ok", "err"})

(***************************************************************************)
(* The provider's cap is found, whatever it is, and found cheaply.         *)
(***************************************************************************)
CapIsFound == DiscoveryIsLogarithmic /\ AnyCapIsRead
=============================================================================
