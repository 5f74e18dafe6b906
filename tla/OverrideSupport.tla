-------------------------- MODULE OverrideSupport --------------------------
(***************************************************************************)
(* The run-level memo of crates/freeze/src/types/state_override.rs: does   *)
(* this endpoint apply the eth_call state-override set?  One memo is       *)
(* shared by every task of a run.  It is three independent words:          *)
(*                                                                         *)
(*   state                 AtomicU8, UNKNOWN / SUPPORTED / RULED_OUT       *)
(*   first_attempt         a semaphore with one permit; here its holder    *)
(*   consecutive_failures  AtomicU8, batches that failed without saying    *)
(*                         why, reset by a verified batch                  *)
(*                                                                         *)
(* Nothing locks the three together.  Every operator below that primes a   *)
(* variable is ONE atomic access; a method that makes two accesses is two  *)
(* operators, and the modules that use them take them as two steps.        *)
(***************************************************************************)
EXTENDS Integers, FiniteSets

CONSTANTS
  Chunks,             \* tasks running extractor_batch_with_fallback
  Callers,            \* tasks running Source::try_batched, chunk after chunk
  NoTask,             \* the permit is in the semaphore
  SilentFailureLimit, \* OverrideSupport::SILENT_FAILURE_LIMIT, 3 in the code
  CounterModulus      \* consecutive_failures wraps at 2^8 in the code

Tasks == Chunks \cup Callers

ASSUME TasksAssumption ==
  /\ Chunks \cap Callers = {}
  /\ NoTask \notin Tasks

ASSUME ChunksAssumption == IsFiniteSet(Chunks)

ASSUME CounterAssumption ==
  /\ SilentFailureLimit \in Nat \ {0}
  /\ CounterModulus \in Nat
  /\ CounterModulus > SilentFailureLimit

VARIABLES
  state,
  first_attempt,
  consecutive_failures

supportVars == <<state, first_attempt, consecutive_failures>>

Verdicts == {"UNKNOWN", "SUPPORTED", "RULED_OUT"}

SupportTypeOK ==
  /\ state \in Verdicts
  /\ first_attempt \in Tasks \cup {NoTask}
  /\ consecutive_failures \in 0 .. CounterModulus - 1

SupportInit ==
  /\ state = "UNKNOWN"
  /\ first_attempt = NoTask
  /\ consecutive_failures = 0

worth_attempting == state # "RULED_OUT"

(***************************************************************************)
(* record_supported: a store of 0, then a compare-exchange that only moves *)
(* UNKNOWN to SUPPORTED.                                                   *)
(***************************************************************************)
reset_failures == consecutive_failures' = 0

\* Mutant: a plain store instead of the compare-exchange.
MutStoreSupported == state' = "SUPPORTED"

mark_supported == state' = IF state = "UNKNOWN" THEN "SUPPORTED" ELSE state

rule_out == state' = "RULED_OUT"

(***************************************************************************)
(* record_silent_failure: fetch_add, then rule_out when the value it       *)
(* returned, plus one, has reached the limit.  Both additions are u8.      *)
(***************************************************************************)
count_failure == consecutive_failures' = (consecutive_failures + 1) % CounterModulus

\* Mutant: one failure too many before the backstop acts.
MutLimitOffByOne == (consecutive_failures + 1) % CounterModulus > SilentFailureLimit

failure_limit_reached ==
  (consecutive_failures + 1) % CounterModulus >= SilentFailureLimit

(***************************************************************************)
(* gate_first_attempt: load; acquire the permit; load again, and give the  *)
(* permit back unless the verdict is still open.                           *)
(***************************************************************************)
verdict_open == state = "UNKNOWN"

acquire_gate(t) ==
  /\ first_attempt = NoTask
  /\ first_attempt' = t

\* Mutant: the permit is given back whatever the second load says.
MutSettleReleases(t) == first_attempt' = NoTask

\* then_some(permit) after the wait: keep the permit only if nobody settled it.
settle_gate(t) ==
  first_attempt' = IF verdict_open THEN first_attempt ELSE NoTask

\* Mutant: the permit is forgotten instead of dropped.
MutForgetGate(t) == first_attempt' = first_attempt

\* drop(gate.take()): a no-op for a task that holds no permit.
drop_gate(t) ==
  first_attempt' = IF first_attempt = t THEN NoTask ELSE first_attempt
=============================================================================
