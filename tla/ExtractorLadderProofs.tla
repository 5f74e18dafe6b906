----------------------- MODULE ExtractorLadderProofs -----------------------
(***************************************************************************)
(* For any sets of chunks and callers, any number of rows, any limit and   *)
(* counter width, and whatever the endpoint answers: the memo is           *)
(* well-typed, its verdict latches, the gate serialises first attempts and *)
(* is never leaked, a task that returns Ok has produced every row exactly  *)
(* once, and an endpoint that never verifies costs a bounded number of     *)
(* requests.                                                               *)
(***************************************************************************)
EXTENDS ExtractorLadder, SequenceTheorems, FiniteSetTheorems, TLAPS

(***************************************************************************)
(* The strengthening for the gate.  "While UNKNOWN, a task past            *)
(* gate_first_attempt that has not sent yet holds the permit" is not       *)
(* inductive without saying who holds it at every control point on the way *)
(* and that a chunk can be past its first request only by having sent it.  *)
(***************************************************************************)
GateInv ==
  /\ \A t \in Tasks : first_attempt = t => pc[t] \in GateHolder
  /\ \A t \in Tasks : pc[t] = "settle" => first_attempt = t
  /\ \A t \in Tasks : pc[t] = "recheck" /\ state = "UNKNOWN" => first_attempt = t
  /\ \A t \in Chunks : pc[t] = "loop" /\ sent[t] = 0 /\ state = "UNKNOWN" => first_attempt = t
  /\ \A t \in Chunks : pc[t] = "per_row" /\ sent[t] = 0 => state = "RULED_OUT"
  /\ \A t \in Chunks : pc[t] \in Trying => sent[t] >= 1
  /\ \A t \in Callers : pc[t] = "per_row" => first_attempt # t
  /\ \A t \in Callers : pc[t] \notin {"loop", "ruling"}
  /\ FirstAttemptGated

(***************************************************************************)
(* The strengthening for the rows: the batches on the stack and the rows   *)
(* in hand are disjoint, and a row has been produced once exactly when it  *)
(* is in none of them.                                                     *)
(***************************************************************************)
InHand(t) ==
  IF pc[t] \in Trying \/ (t \in Callers /\ pc[t] \in Waiting \ {"start"})
  THEN RowsOf(current[t])
  ELSE IF pc[t] = "per_row" THEN rest[t] ELSE {}

RowsAccounted(t) ==
  /\ \A i, j \in DOMAIN stack[t] : i # j => RowsOf(stack[t][i]) \cap RowsOf(stack[t][j]) = {}
  /\ \A i \in DOMAIN stack[t] : RowsOf(stack[t][i]) \cap InHand(t) = {}
  /\ \A i \in DOMAIN stack[t] : RowsOf(stack[t][i]) \subseteq 1 .. n_rows[t]
  /\ InHand(t) \subseteq 1 .. n_rows[t]
  /\ \A r \in Row : out[t][r] =
       IF r <= n_rows[t] /\ r \notin InHand(t) /\ r \notin Pending(t) THEN 1 ELSE 0
  /\ pc[t] = "done" => stack[t] = <<>>

RowsInv == \A t \in Tasks : pc[t] # "failed" => RowsAccounted(t)

\* What the slice iterator of a caller has left is one interval.
SliceInv == \A t \in Callers : Len(stack[t]) <= 1

IInv == TypeOK /\ GateInv /\ SliceInv /\ RowsInv

-----------------------------------------------------------------------------
(* A step, as the list of actions a proof about Next must go through.      *)

LEMMA NextCases ==
  ASSUME [Next]_vars
  PROVE  \/ \E t \in Tasks : GateLoad(t)
         \/ \E t \in Tasks : GateAcquire(t)
         \/ \E t \in Tasks : GateSettle(t)
         \/ \E t \in Tasks : Answer(t)
         \/ \E t \in Tasks : ReleaseGate(t)
         \/ \E t \in Tasks : Verified(t)
         \/ \E t \in Tasks : Supported(t)
         \/ \E t \in Tasks : PerRowOk(t)
         \/ \E t \in Tasks : PerRowErr(t)
         \/ \E t \in Chunks : ChunkStart(t)
         \/ \E t \in Chunks : ChunkRecheck(t)
         \/ \E t \in Chunks : ChunkDone(t)
         \/ \E t \in Chunks : ChunkDrain(t)
         \/ \E t \in Chunks : ChunkSend(t)
         \/ \E t \in Chunks : ChunkUnavailable(t)
         \/ \E t \in Chunks : ChunkSilentFailure(t)
         \/ \E t \in Chunks : ChunkRuling(t)
         \/ \E t \in Callers : CallerDone(t)
         \/ \E t \in Callers : CallerStart(t)
         \/ \E t \in Callers : CallerRecheck(t)
         \/ \E t \in Callers : CallerFailure(t)
         \/ UNCHANGED vars
  BY DEF Next, SharedStep, ChunkStep, CallerStep, Finished

(* What the stack operations do, for sequences over any set.               *)
LEMMA PopStack ==
  ASSUME NEW S, NEW s \in Seq(S), s # <<>>
  PROVE  /\ Top(s) \in S
         /\ Pop(s) \in Seq(S)
         /\ Len(s) \in Nat \ {0}
         /\ Len(Pop(s)) = Len(s) - 1
         /\ \A i \in 1 .. Len(s) - 1 : Pop(s)[i] = s[i]
  <1>1. Len(s) \in Nat \ {0}
    OBVIOUS
  <1>2. Top(s) \in S
    BY <1>1 DEF Top
  <1>3. \A i \in 1 .. Len(s) - 1 : s[i] \in S
    BY <1>1
  <1>4. /\ Pop(s) \in Seq(S)
        /\ Len(Pop(s)) = IF 1 <= Len(s) - 1 THEN Len(s) - 1 - 1 + 1 ELSE 0
        /\ \A i \in 1 .. Len(s) - 1 - 1 + 1 : Pop(s)[i] = s[1 + i - 1]
    BY <1>1, <1>3, SubSeqProperties DEF Pop
  <1>5. Len(Pop(s)) = Len(s) - 1
    <2>1. \A n \in Nat \ {0} : (IF 1 <= n - 1 THEN n - 1 - 1 + 1 ELSE 0) = n - 1
      OBVIOUS
    <2> QED
      BY <1>1, <1>4, <2>1
  <1>6. ASSUME NEW i \in 1 .. Len(s) - 1 PROVE Pop(s)[i] = s[i]
    <2>1. i \in 1 .. Len(s) - 1 - 1 + 1 /\ 1 + i - 1 = i
      BY <1>1
    <2> QED
      BY <1>4, <2>1
  <1> QED
    BY <1>1, <1>2, <1>4, <1>5, <1>6

LEMMA PushTwo ==
  ASSUME NEW S, NEW s \in Seq(S), NEW b \in S, NEW c \in S
  PROVE  /\ s \o <<b, c>> \in Seq(S)
         /\ Len(s) \in Nat
         /\ Len(s \o <<b, c>>) = Len(s) + 2
         /\ \A i \in 1 .. Len(s) : (s \o <<b, c>>)[i] = s[i]
         /\ (s \o <<b, c>>)[Len(s) + 1] = b
         /\ (s \o <<b, c>>)[Len(s) + 2] = c
  <1>1. <<b, c>> \in Seq(S) /\ Len(<<b, c>>) = 2
    OBVIOUS
  <1> QED
    BY <1>1

LEMMA BatchRows ==
  ASSUME NEW b \in Batch
  PROVE  RowsOf(b) \in SUBSET Row
  BY LadderAssumption DEF Batch, Row, RowsOf

LEMMA PendingIsRows ==
  ASSUME TypeOK, NEW t \in Tasks
  PROVE  Pending(t) \subseteq Row /\ RowsOf(current[t]) \subseteq Row
  <1>1. \A i \in DOMAIN stack[t] : stack[t][i] \in Batch
    BY DEF TypeOK
  <1>2. current[t] \in Batch
    BY DEF TypeOK
  <1> QED
    BY <1>1, <1>2, BatchRows DEF Pending

LEMMA HalveType ==
  ASSUME TypeOK, NEW t \in Tasks, BatchLen(current[t]) > 1
  PROVE  LET b == current[t]
             mid == b.lo + BatchLen(b) \div 2
         IN /\ mid \in Row /\ mid - 1 \in Row
            /\ [lo |-> mid, hi |-> b.hi] \in Batch
            /\ [lo |-> b.lo, hi |-> mid - 1] \in Batch
  <1>1. current[t].lo \in Row /\ current[t].hi \in Row
    BY DEF TypeOK, Batch
  <1> QED
    BY <1>1, LadderAssumption DEF BatchLen, Row, Batch

-----------------------------------------------------------------------------
(* TypeOK is inductive on its own.                                         *)

LEMMA InitType == Init => TypeOK
  <1> SUFFICES ASSUME Init PROVE TypeOK
    OBVIOUS
  <1>1. SupportTypeOK
    BY CounterAssumption DEF Init, SupportInit, SupportTypeOK, Verdicts
  <1>2. 1 \in Row /\ MaxRows \in Row
    BY LadderAssumption DEF Row
  <1>3. \A t \in Tasks : [lo |-> 1, hi |-> n_rows[t]] \in Batch
    BY <1>2 DEF Init, Batch
  <1>4. stack \in [Tasks -> Seq(Batch)]
    BY <1>3 DEF Init
  <1>5. current \in [Tasks -> Batch]
    BY <1>2 DEF Init, Batch, NoBatch
  <1>6. /\ pc \in [Tasks -> Points] /\ n_rows \in [Tasks -> Row]
        /\ result \in [Tasks -> Outcomes] /\ rest \in [Tasks -> SUBSET Row]
        /\ out \in [Tasks -> [Row -> Nat]] /\ sent \in [Tasks -> Nat]
    BY DEF Init, Points, Waiting, Outcomes
  <1> QED
    BY <1>1, <1>4, <1>5, <1>6 DEF TypeOK

LEMMA PointsAre ==
  {"start", "gate", "acquire", "settle", "recheck", "await", "release", "interpret",
   "supported", "ruling", "loop", "per_row", "done", "failed"} \subseteq Points
  BY DEF Points, Waiting, Trying, Ended

LEMMA ProduceType ==
  ASSUME TypeOK, NEW t \in Tasks, NEW rows, Produce(t, rows)
  PROVE  out' \in [Tasks -> [Row -> Nat]]
  BY DEF TypeOK, Produce

LEMMA DrainType ==
  ASSUME TypeOK, NEW t \in Tasks, NEW rows \in SUBSET Row, Drain(t, rows)
  PROVE  /\ rest' \in [Tasks -> SUBSET Row]
         /\ stack' \in [Tasks -> Seq(Batch)]
         /\ pc' \in [Tasks -> Points]
  <1>1. <<>> \in Seq(Batch)
    BY EmptySeq
  <1> QED
    BY <1>1, PointsAre DEF TypeOK, Drain, Goto

LEMMA AfterFailureType ==
  ASSUME TypeOK, NEW t \in Tasks, AfterFailure(t)
  PROVE  /\ rest' \in [Tasks -> SUBSET Row]
         /\ stack' \in [Tasks -> Seq(Batch)]
         /\ pc' \in [Tasks -> Points]
  <1> DEFINE b == current[t]
             mid == b.lo + BatchLen(b) \div 2
             left == [lo |-> b.lo, hi |-> mid - 1]
             right == [lo |-> mid, hi |-> b.hi]
  <1>1. CASE result[t] = "shrinkable" /\ BatchLen(current[t]) > 1
    <2>1. left \in Batch /\ right \in Batch
      BY <1>1, HalveType
    <2>2. stack[t] \in Seq(Batch)
      BY DEF TypeOK
    <2>3. stack[t] \o <<right, left>> \in Seq(Batch)
      BY <2>1, <2>2, PushTwo
    <2>4. stack' = [stack EXCEPT ![t] = stack[t] \o <<right, left>>]
      BY <1>1 DEF AfterFailure, Halve, TypeOK
    <2> HIDE DEF left, right
    <2> QED
      BY <1>1, <2>3, <2>4, PointsAre DEF TypeOK, AfterFailure, Goto
  <1>2. CASE ~(result[t] = "shrinkable" /\ BatchLen(current[t]) > 1)
    <2>1. /\ rest' = [rest EXCEPT ![t] = RowsOf(current[t])]
          /\ pc' = [pc EXCEPT ![t] = "per_row"]
          /\ stack' = stack
      BY <1>2 DEF AfterFailure, Goto
    <2>2. RowsOf(current[t]) \in SUBSET Row
      BY PendingIsRows
    <2>3. rest' \in [Tasks -> SUBSET Row]
      BY <2>1, <2>2 DEF TypeOK
    <2>4. pc' \in [Tasks -> Points]
      BY <2>1, PointsAre DEF TypeOK
    <2> QED
      BY <2>1, <2>3, <2>4 DEF TypeOK
  <1> QED
    BY <1>1, <1>2

LEMMA NextSliceType ==
  ASSUME TypeOK, NEW t \in Tasks, stack[t] # <<>>, NextSlice(t)
  PROVE  /\ current' \in [Tasks -> Batch]
         /\ stack' \in [Tasks -> Seq(Batch)]
  <1> DEFINE b == Top(stack[t])
             cut == b.lo + CallerBatch - 1
             whole == b.hi <= cut
             first == [lo |-> b.lo, hi |-> IF whole THEN b.hi ELSE cut]
             left == IF whole THEN <<>> ELSE <<[lo |-> cut + 1, hi |-> b.hi]>>
  <1>1. b.lo \in Row /\ b.hi \in Row /\ b \in Batch
    <2>1. b \in Batch
      BY PopStack DEF TypeOK
    <2> QED
      BY <2>1 DEF Batch
  <1>2. (IF whole THEN b.hi ELSE cut) \in Row
    BY <1>1, LadderAssumption DEF Row
  <1>3. first \in Batch
    BY <1>1, <1>2 DEF Batch
  <1>4. left \in Seq(Batch)
    <2>1. CASE whole
      BY <2>1, EmptySeq
    <2>2. CASE ~whole
      <3>1. cut + 1 \in Row
        BY <1>1, <2>2, LadderAssumption DEF Row
      <3>2. [lo |-> cut + 1, hi |-> b.hi] \in Batch
        BY <1>1, <3>1 DEF Batch
      <3> QED
        BY <2>2, <3>2
    <2> QED
      BY <2>1, <2>2
  <1>5. current' = [current EXCEPT ![t] = first] /\ stack' = [stack EXCEPT ![t] = left]
    BY DEF NextSlice
  <1> HIDE DEF first, left
  <1> QED
    BY <1>3, <1>4, <1>5 DEF TypeOK

LEMMA NextType == TypeOK /\ [Next]_vars => TypeOK'
  <1> SUFFICES ASSUME TypeOK, [Next]_vars
               PROVE  TypeOK'
    OBVIOUS
  <1> USE PointsAre, TasksAssumption
  <1> USE DEF TypeOK, SupportTypeOK, At, Goto, supportVars, Tasks
  <1>1. ASSUME NEW t \in Tasks, GateLoad(t) PROVE TypeOK'
    BY <1>1 DEF GateLoad
  <1>2. ASSUME NEW t \in Tasks, GateAcquire(t) PROVE TypeOK'
    BY <1>2 DEF GateAcquire, acquire_gate
  <1>3. ASSUME NEW t \in Tasks, GateSettle(t) PROVE TypeOK'
    BY <1>3 DEF GateSettle, settle_gate
  <1>4. ASSUME NEW t \in Tasks, Answer(t) PROVE TypeOK'
    BY <1>4, LadderAssumption DEF Answer
  <1>5. ASSUME NEW t \in Tasks, ReleaseGate(t) PROVE TypeOK'
    BY <1>5 DEF ReleaseGate, drop_gate
  <1>6. ASSUME NEW t \in Tasks, Verified(t) PROVE TypeOK'
    BY <1>6, CounterAssumption DEF Verified, reset_failures
  <1>7. ASSUME NEW t \in Tasks, Supported(t) PROVE TypeOK'
    BY <1>7, ProduceType DEF Supported, mark_supported, Verdicts
  <1>8. ASSUME NEW t \in Tasks, PerRowOk(t) PROVE TypeOK'
    BY <1>8, ProduceType DEF PerRowOk
  <1>9. ASSUME NEW t \in Tasks, PerRowErr(t) PROVE TypeOK'
    BY <1>9 DEF PerRowErr, drop_gate
  <1>10. ASSUME NEW t \in Chunks, ChunkStart(t) PROVE TypeOK'
    <2>1. /\ rest' \in [Tasks -> SUBSET Row]
          /\ stack' \in [Tasks -> Seq(Batch)]
          /\ pc' \in [Tasks -> Points]
      <3>1. CASE Goto(t, "gate") /\ UNCHANGED <<rest, stack>>
        BY <3>1
      <3>2. CASE Drain(t, Pending(t))
        BY <3>2, DrainType, PendingIsRows
      <3> QED
        BY <1>10, <3>1, <3>2 DEF ChunkStart
    <2> QED
      BY <1>10, <2>1 DEF ChunkStart
  <1>11. ASSUME NEW t \in Chunks, ChunkRecheck(t) PROVE TypeOK'
    <2>1. /\ rest' \in [Tasks -> SUBSET Row]
          /\ stack' \in [Tasks -> Seq(Batch)]
          /\ pc' \in [Tasks -> Points]
      <3>1. CASE Goto(t, "loop") /\ UNCHANGED <<rest, stack>>
        BY <3>1
      <3>2. CASE Drain(t, Pending(t))
        BY <3>2, DrainType, PendingIsRows
      <3> QED
        BY <1>11, <3>1, <3>2 DEF ChunkRecheck
    <2>2. first_attempt' = first_attempt \/ drop_gate(t)
      BY <1>11 DEF ChunkRecheck
    <2>3. SupportTypeOK'
      BY <1>11, <2>2 DEF ChunkRecheck, drop_gate
    <2> QED
      BY <1>11, <2>1, <2>3 DEF ChunkRecheck
  <1>12. ASSUME NEW t \in Chunks, ChunkDone(t) PROVE TypeOK'
    BY <1>12 DEF ChunkDone, drop_gate
  <1>13. ASSUME NEW t \in Chunks, ChunkDrain(t) PROVE TypeOK'
    BY <1>13, DrainType, PendingIsRows DEF ChunkDrain
  <1>14. ASSUME NEW t \in Chunks, ChunkSend(t) PROVE TypeOK'
    BY <1>14, PopStack DEF ChunkSend
  <1>15. ASSUME NEW t \in Chunks, ChunkUnavailable(t) PROVE TypeOK'
    <2>1. RowsOf(current[t]) \cup Pending(t) \in SUBSET Row
      BY PendingIsRows
    <2> QED
      BY <1>15, <2>1, DrainType DEF ChunkUnavailable, rule_out, Verdicts
  <1>16. ASSUME NEW t \in Chunks, ChunkSilentFailure(t) PROVE TypeOK'
    <2>1. consecutive_failures' \in 0 .. CounterModulus - 1
      BY <1>16, CounterAssumption DEF ChunkSilentFailure, count_failure
    <2>2. /\ rest' \in [Tasks -> SUBSET Row]
          /\ stack' \in [Tasks -> Seq(Batch)]
          /\ pc' \in [Tasks -> Points]
      <3>1. CASE Goto(t, "ruling") /\ UNCHANGED <<rest, stack>>
        BY <3>1
      <3>2. CASE AfterFailure(t)
        BY <3>2, AfterFailureType
      <3> QED
        BY <1>16, <3>1, <3>2 DEF ChunkSilentFailure
    <2> QED
      BY <1>16, <2>1, <2>2 DEF ChunkSilentFailure
  <1>17. ASSUME NEW t \in Chunks, ChunkRuling(t) PROVE TypeOK'
    BY <1>17, AfterFailureType DEF ChunkRuling, rule_out, Verdicts
  <1>18. ASSUME NEW t \in Callers, CallerDone(t) PROVE TypeOK'
    BY <1>18 DEF CallerDone
  <1>19. ASSUME NEW t \in Callers, CallerStart(t) PROVE TypeOK'
    <2>1. current' \in [Tasks -> Batch] /\ stack' \in [Tasks -> Seq(Batch)]
      BY <1>19, NextSliceType DEF CallerStart
    <2>2. RowsOf(current'[t]) \in SUBSET Row
      BY <2>1, BatchRows
    <2>3. rest' \in [Tasks -> SUBSET Row]
      BY <1>19, <2>2 DEF CallerStart
    <2>4. pc' \in [Tasks -> Points]
      BY <1>19 DEF CallerStart
    <2>5. UNCHANGED <<supportVars, n_rows, result, out, sent>>
      BY <1>19 DEF CallerStart
    <2> QED
      BY <2>1, <2>3, <2>4, <2>5
  <1>20. ASSUME NEW t \in Callers, CallerRecheck(t) PROVE TypeOK'
    <2>1. RowsOf(current[t]) \in SUBSET Row
      BY PendingIsRows
    <2>2. pc' \in [Tasks -> Points]
      BY <1>20 DEF CallerRecheck
    <2>3. rest' \in [Tasks -> SUBSET Row]
      BY <1>20, <2>1 DEF CallerRecheck
    <2>4. sent' \in [Tasks -> Nat]
      <3>1. sent[t] + 1 \in Nat
        OBVIOUS
      <3>2. sent' = [sent EXCEPT ![t] = sent[t] + 1] \/ sent' = sent
        BY <1>20 DEF CallerRecheck
      <3> QED
        BY <3>1, <3>2
    <2>5. first_attempt' \in Tasks \cup {NoTask}
      BY <1>20 DEF CallerRecheck, drop_gate
    <2>6. UNCHANGED <<state, consecutive_failures, n_rows, stack, current, result, out>>
      BY <1>20 DEF CallerRecheck
    <2> QED
      BY <2>2, <2>3, <2>4, <2>5, <2>6
  <1>21. ASSUME NEW t \in Callers, CallerFailure(t) PROVE TypeOK'
    BY <1>21, PendingIsRows DEF CallerFailure, rule_out, Verdicts
  <1>22. ASSUME UNCHANGED vars PROVE TypeOK'
    BY <1>22 DEF vars, taskVars
  <1> HIDE DEF TypeOK, SupportTypeOK, At, Goto, supportVars, Tasks
  <1> QED
    BY NextCases, <1>1, <1>2, <1>3, <1>4, <1>5, <1>6, <1>7, <1>8, <1>9, <1>10,
       <1>11, <1>12, <1>13, <1>14, <1>15, <1>16, <1>17, <1>18, <1>19, <1>20,
       <1>21, <1>22

(***************************************************************************)
(* Every state of a run is well-typed, for any number of tasks and rows    *)
(* and any counter width: batches stay intervals of rows through every     *)
(* halving and slicing of extractor_batch_with_fallback and                *)
(* read_storage_slots.                                                     *)
(***************************************************************************)
THEOREM TypeCorrect == Spec => []TypeOK
  <1> QED
    BY InitType, NextType, PTL DEF Spec

(***************************************************************************)
(* The verdict latches: no interleaving of record_supported, rule_out and  *)
(* record_silent_failure takes the memo out of RULED_OUT or back to        *)
(* UNKNOWN.                                                                *)
(***************************************************************************)
THEOREM Latch == Spec => VerdictLatches
  <1>1. [Next]_vars =>
          [/\ state = "RULED_OUT" => state' = "RULED_OUT"
           /\ state # "UNKNOWN" => state' # "UNKNOWN"]_vars
    <2> SUFFICES ASSUME [Next]_vars
                 PROVE  /\ state = "RULED_OUT" => state' = "RULED_OUT"
                        /\ state # "UNKNOWN" => state' # "UNKNOWN"
      OBVIOUS
    <2> USE DEF supportVars, mark_supported, rule_out
    <2>1. ASSUME UNCHANGED state \/ mark_supported \/ rule_out
          PROVE  /\ state = "RULED_OUT" => state' = "RULED_OUT"
                 /\ state # "UNKNOWN" => state' # "UNKNOWN"
      BY <2>1
    <2>2. ASSUME NEW t \in Tasks, SharedStep(t)
          PROVE  UNCHANGED state \/ mark_supported \/ rule_out
      BY <2>2 DEF SharedStep, GateLoad, GateAcquire, GateSettle, Answer, ReleaseGate,
                  Verified, Supported, PerRowOk, PerRowErr
    <2>3. ASSUME NEW t \in Chunks, ChunkStep(t)
          PROVE  UNCHANGED state \/ mark_supported \/ rule_out
      BY <2>3 DEF ChunkStep, ChunkStart, ChunkRecheck, ChunkDone, ChunkDrain, ChunkSend,
                  ChunkUnavailable, ChunkSilentFailure, ChunkRuling
    <2>4. ASSUME NEW t \in Callers, CallerStep(t)
          PROVE  UNCHANGED state \/ mark_supported \/ rule_out
      BY <2>4 DEF CallerStep, CallerDone, CallerStart, CallerRecheck, CallerFailure
    <2>5. ASSUME Finished \/ UNCHANGED vars
          PROVE  UNCHANGED state
      BY <2>5 DEF Finished, vars
    <2> QED
      BY <2>1, <2>2, <2>3, <2>4, <2>5 DEF Next
  <1> QED
    BY <1>1, PTL DEF Spec, VerdictLatches

-----------------------------------------------------------------------------
(* The gate.                                                               *)

LEMMA InitGate == Init => GateInv
  BY TasksAssumption DEF Init, SupportInit, GateInv, FirstAttemptGated, FirstAttempt, Trying, Tasks

LEMMA NextGate == TypeOK /\ GateInv /\ [Next]_vars => GateInv'
  <1> SUFFICES ASSUME TypeOK, GateInv, [Next]_vars
               PROVE  GateInv'
    OBVIOUS
  <1>a. /\ pc \in [Tasks -> Points]
        /\ sent \in [Tasks -> Nat]
        /\ first_attempt \in Tasks \cup {NoTask}
        /\ state \in Verdicts
    BY DEF TypeOK, SupportTypeOK
  <1> USE <1>a, TasksAssumption
  <1> USE DEF GateInv, FirstAttemptGated, FirstAttempt, GateHolder, Trying, Tasks, Verdicts,
              At, Goto, supportVars
  <1>1. ASSUME NEW t \in Tasks, GateLoad(t) PROVE GateInv'
    BY <1>1 DEF GateLoad, verdict_open
  <1>2. ASSUME NEW t \in Tasks, GateAcquire(t) PROVE GateInv'
    BY <1>2 DEF GateAcquire, acquire_gate
  <1>3. ASSUME NEW t \in Tasks, GateSettle(t) PROVE GateInv'
    BY <1>3 DEF GateSettle, settle_gate, verdict_open
  <1>4. ASSUME NEW t \in Tasks, Answer(t) PROVE GateInv'
    BY <1>4 DEF Answer
  <1>5. ASSUME NEW t \in Tasks, ReleaseGate(t) PROVE GateInv'
    BY <1>5 DEF ReleaseGate, drop_gate
  <1>6. ASSUME NEW t \in Tasks, Verified(t) PROVE GateInv'
    BY <1>6 DEF Verified
  <1>7. ASSUME NEW t \in Tasks, Supported(t) PROVE GateInv'
    BY <1>7 DEF Supported, mark_supported
  <1>8. ASSUME NEW t \in Tasks, PerRowOk(t) PROVE GateInv'
    BY <1>8 DEF PerRowOk
  <1>9. ASSUME NEW t \in Tasks, PerRowErr(t) PROVE GateInv'
    BY <1>9 DEF PerRowErr, drop_gate
  <1>10. ASSUME NEW t \in Chunks, ChunkStart(t) PROVE GateInv'
    BY <1>10 DEF ChunkStart, Drain, worth_attempting
  <1>11. ASSUME NEW t \in Chunks, ChunkRecheck(t) PROVE GateInv'
    BY <1>11 DEF ChunkRecheck, Drain, worth_attempting, drop_gate
  <1>12. ASSUME NEW t \in Chunks, ChunkDone(t) PROVE GateInv'
    BY <1>12 DEF ChunkDone, drop_gate
  <1>13. ASSUME NEW t \in Chunks, ChunkDrain(t) PROVE GateInv'
    BY <1>13 DEF ChunkDrain, Drain, worth_attempting
  <1>14. ASSUME NEW t \in Chunks, ChunkSend(t) PROVE GateInv'
    BY <1>14 DEF ChunkSend
  <1>15. ASSUME NEW t \in Chunks, ChunkUnavailable(t) PROVE GateInv'
    BY <1>15 DEF ChunkUnavailable, Drain, rule_out
  <1>16. ASSUME NEW t \in Chunks, ChunkSilentFailure(t) PROVE GateInv'
    BY <1>16 DEF ChunkSilentFailure, AfterFailure
  <1>17. ASSUME NEW t \in Chunks, ChunkRuling(t) PROVE GateInv'
    BY <1>17 DEF ChunkRuling, AfterFailure, rule_out
  <1>18. ASSUME NEW t \in Callers, CallerDone(t) PROVE GateInv'
    BY <1>18 DEF CallerDone
  <1>19. ASSUME NEW t \in Callers, CallerStart(t) PROVE GateInv'
    BY <1>19 DEF CallerStart
  <1>20. ASSUME NEW t \in Callers, CallerRecheck(t) PROVE GateInv'
    BY <1>20 DEF CallerRecheck, drop_gate, worth_attempting
  <1>21. ASSUME NEW t \in Callers, CallerFailure(t) PROVE GateInv'
    BY <1>21 DEF CallerFailure, rule_out
  <1>22. ASSUME UNCHANGED vars PROVE GateInv'
    BY <1>22 DEF vars, taskVars
  <1> HIDE DEF GateInv, FirstAttemptGated, FirstAttempt, GateHolder, Trying, Tasks, Verdicts,
               At, Goto, supportVars
  <1> QED
    BY NextCases, <1>1, <1>2, <1>3, <1>4, <1>5, <1>6, <1>7, <1>8, <1>9, <1>10, <1>11, <1>12, <1>13, <1>14, <1>15, <1>16, <1>17, <1>18, <1>19, <1>20, <1>21, <1>22

-----------------------------------------------------------------------------
(* The rows.  One lemma for each thing a step can do with them.            *)

\* They stay where they are (perhaps under another control point).
LEMMA KeepRows ==
  ASSUME NEW t \in Tasks, RowsAccounted(t),
         stack'[t] = stack[t], n_rows'[t] = n_rows[t], out'[t] = out[t],
         InHand(t)' = InHand(t),
         pc'[t] = "done" => stack[t] = <<>>
  PROVE  RowsAccounted(t)'
  BY DEF RowsAccounted, Pending

\* The rows in hand are produced.
LEMMA ProduceRows ==
  ASSUME TypeOK, NEW t \in Tasks, RowsAccounted(t),
         stack'[t] = stack[t], n_rows'[t] = n_rows[t],
         out'[t] = [r \in Row |-> out[t][r] + IF r \in InHand(t) THEN 1 ELSE 0],
         InHand(t)' = {},
         pc'[t] # "done"
  PROVE  RowsAccounted(t)'
  <1>1. Pending(t)' = Pending(t)
    BY DEF Pending
  <1>2. \A r \in Row : r \in InHand(t) => r \notin Pending(t)
    BY DEF RowsAccounted, Pending
  <1>3. \A r \in Row : r \in InHand(t) => r <= n_rows[t]
    BY DEF RowsAccounted, TypeOK, Row
  <1>4. \A r \in Row : out'[t][r] =
          IF r <= n_rows[t] /\ r \notin Pending(t) THEN 1 ELSE 0
    BY <1>2, <1>3 DEF RowsAccounted
  <1> QED
    BY <1>1, <1>4 DEF RowsAccounted

\* The whole stack joins the rows in hand.
LEMMA DrainRows ==
  ASSUME NEW t \in Tasks, RowsAccounted(t),
         stack'[t] = <<>>, n_rows'[t] = n_rows[t], out'[t] = out[t],
         InHand(t)' = InHand(t) \cup Pending(t)
  PROVE  RowsAccounted(t)'
  <1>1. Pending(t)' = {}
    BY DEF Pending
  <1>2. Pending(t) \subseteq 1 .. n_rows[t]
    BY DEF RowsAccounted, Pending
  <1> QED
    BY <1>1, <1>2 DEF RowsAccounted

\* The batch on top of the stack becomes the rows in hand.
LEMMA TakeRows ==
  ASSUME TypeOK, NEW t \in Tasks, RowsAccounted(t), InHand(t) = {},
         stack[t] # <<>>,
         stack'[t] = Pop(stack[t]), n_rows'[t] = n_rows[t], out'[t] = out[t],
         InHand(t)' = RowsOf(Top(stack[t])),
         pc'[t] # "done"
  PROVE  RowsAccounted(t)'
  <1> DEFINE s == stack[t]
             n == Len(s)
  <1>0. s \in Seq(Batch) /\ s # <<>>
    BY DEF TypeOK
  <1>1. /\ n \in Nat \ {0}
        /\ Pop(s) \in Seq(Batch)
        /\ Len(Pop(s)) = n - 1
        /\ \A i \in 1 .. n - 1 : Pop(s)[i] = s[i]
    <2> HIDE DEF s
    <2> QED
      BY <1>0, PopStack
  <1>2. DOMAIN s = 1 .. n /\ DOMAIN Pop(s) = 1 .. n - 1
    <2> HIDE DEF s
    <2> QED
      BY <1>0, <1>1
  <1>3. n \in DOMAIN s /\ \A i \in 1 .. n - 1 : i \in DOMAIN s /\ i # n
    BY <1>1, <1>2
  <1>4. Top(s) = s[n]
    BY DEF Top
  <1>5. Pending(t) = Pending(t)' \cup RowsOf(s[n])
    <2>1. \A i \in DOMAIN s : i = n \/ i \in 1 .. n - 1
      BY <1>1, <1>2
    <2> QED
      BY <1>1, <1>2, <1>3, <2>1 DEF Pending
  <1>6. \A i \in DOMAIN stack'[t] : i \in DOMAIN s /\ i # n /\ stack'[t][i] = s[i]
    BY <1>1, <1>2, <1>3
  <1>7. /\ \A i, j \in DOMAIN stack'[t] :
              i # j => RowsOf(stack'[t][i]) \cap RowsOf(stack'[t][j]) = {}
        /\ \A i \in DOMAIN stack'[t] : RowsOf(stack'[t][i]) \cap RowsOf(s[n]) = {}
        /\ \A i \in DOMAIN stack'[t] : RowsOf(stack'[t][i]) \subseteq 1 .. n_rows[t]
        /\ RowsOf(s[n]) \subseteq 1 .. n_rows[t]
    BY <1>3, <1>6 DEF RowsAccounted
  <1>8. \A r \in Row : out[t][r] =
          IF r <= n_rows[t] /\ r \notin RowsOf(s[n]) /\ r \notin Pending(t)' THEN 1 ELSE 0
    BY <1>5 DEF RowsAccounted
  <1> QED
    BY <1>4, <1>7, <1>8 DEF RowsAccounted

\* The rows in hand go back on the stack, split in two.
LEMMA HalveRows ==
  ASSUME TypeOK, NEW t \in Tasks, RowsAccounted(t),
         InHand(t) = RowsOf(current[t]),
         BatchLen(current[t]) > 1,
         Halve(t), n_rows'[t] = n_rows[t], out'[t] = out[t],
         InHand(t)' = {},
         pc'[t] # "done"
  PROVE  RowsAccounted(t)'
  <1> DEFINE s == stack[t]
             n == Len(s)
             b == current[t]
             mid == b.lo + BatchLen(b) \div 2
             right == [lo |-> mid, hi |-> b.hi]
             left == [lo |-> b.lo, hi |-> mid - 1]
             s2 == s \o <<right, left>>
  <1>1. left \in Batch /\ right \in Batch
    BY HalveType
  <1>2. stack'[t] = s2
    BY DEF Halve, TypeOK
  <1>3. /\ RowsOf(left) \cup RowsOf(right) = RowsOf(b)
        /\ RowsOf(left) \cap RowsOf(right) = {}
    <2>1. b.lo \in Row /\ b.hi \in Row
      BY DEF TypeOK, Batch
    <2>2. b.lo \in Int /\ b.hi \in Int /\ mid \in Int /\ b.lo < mid /\ mid <= b.hi
      BY <2>1, LadderAssumption DEF Row, BatchLen
    <2>3. RowsOf(left) = b.lo .. mid - 1 /\ RowsOf(right) = mid .. b.hi
      BY DEF RowsOf
    <2>4. RowsOf(b) = b.lo .. b.hi
      BY DEF RowsOf
    <2>5. \A l, m, h \in Int : l < m /\ m <= h =>
            (l .. m - 1) \cup (m .. h) = l .. h /\ (l .. m - 1) \cap (m .. h) = {}
      OBVIOUS
    <2> HIDE DEF b, mid, left, right
    <2> QED
      BY <2>2, <2>3, <2>4, <2>5
  <1> HIDE DEF left, right
  <1>4. /\ n \in Nat
        /\ s2 \in Seq(Batch)
        /\ Len(s2) = n + 2
        /\ \A i \in 1 .. n : s2[i] = s[i]
        /\ s2[n + 1] = right
        /\ s2[n + 2] = left
    <2>1. s \in Seq(Batch)
      BY DEF TypeOK
    <2> HIDE DEF s
    <2> QED
      BY <1>1, <2>1, PushTwo
  <1>5. DOMAIN s = 1 .. n /\ DOMAIN s2 = 1 .. n + 2
    BY <1>4 DEF TypeOK
  <1> HIDE DEF s2
  <1>6. \A i \in DOMAIN s2 : i \in DOMAIN s \/ i = n + 1 \/ i = n + 2
    BY <1>4, <1>5
  <1>7. \A i \in DOMAIN s : i \in DOMAIN s2 /\ s2[i] = s[i] /\ i # n + 1 /\ i # n + 2
    BY <1>4, <1>5
  <1>8. n + 1 \in DOMAIN s2 /\ n + 2 \in DOMAIN s2 /\ n + 1 # n + 2
    BY <1>4, <1>5
  <1>9. Pending(t)' = Pending(t) \cup RowsOf(b)
    <2>1. Pending(t)' = UNION {RowsOf(s2[i]) : i \in DOMAIN s2}
      BY <1>2 DEF Pending
    <2>2. Pending(t) = UNION {RowsOf(s[i]) : i \in DOMAIN s}
      BY DEF Pending
    <2> HIDE DEF s, n, b
    <2> QED
      BY <1>3, <1>4, <1>6, <1>7, <1>8, <2>1, <2>2
  <1>10. /\ \A i, j \in DOMAIN s : i # j => RowsOf(s[i]) \cap RowsOf(s[j]) = {}
         /\ \A i \in DOMAIN s : RowsOf(s[i]) \cap RowsOf(b) = {}
         /\ \A i \in DOMAIN s : RowsOf(s[i]) \subseteq 1 .. n_rows[t]
         /\ RowsOf(b) \subseteq 1 .. n_rows[t]
    BY DEF RowsAccounted
  <1>11. \A i, j \in DOMAIN s2 : i # j => RowsOf(s2[i]) \cap RowsOf(s2[j]) = {}
    <2> HIDE DEF s, n, b
    <2> QED
      BY <1>3, <1>4, <1>6, <1>7, <1>10
  <1>12. \A i \in DOMAIN s2 : RowsOf(s2[i]) \subseteq 1 .. n_rows[t]
    <2> HIDE DEF s, n, b
    <2> QED
      BY <1>3, <1>4, <1>6, <1>7, <1>10
  <1>13. \A r \in Row : out[t][r] =
           IF r <= n_rows[t] /\ r \notin Pending(t)' THEN 1 ELSE 0
    BY <1>9 DEF RowsAccounted
  <1> QED
    BY <1>2, <1>11, <1>12, <1>13 DEF RowsAccounted

\* A caller cuts the next slice off what its iterator has left.
LEMMA SliceRows ==
  ASSUME TypeOK, NEW t \in Tasks, RowsAccounted(t), InHand(t) = {},
         stack[t] # <<>>, Len(stack[t]) <= 1,
         NextSlice(t), n_rows'[t] = n_rows[t], out'[t] = out[t],
         InHand(t)' = RowsOf(current'[t]),
         pc'[t] # "done"
  PROVE  RowsAccounted(t)' /\ Len(stack'[t]) <= 1
  <1> DEFINE b == Top(stack[t])
             cut == b.lo + CallerBatch - 1
             whole == b.hi <= cut
             first == [lo |-> b.lo, hi |-> IF whole THEN b.hi ELSE cut]
             tail == [lo |-> cut + 1, hi |-> b.hi]
             left == IF whole THEN <<>> ELSE <<tail>>
  <1>1. Len(stack[t]) = 1 /\ DOMAIN stack[t] = {1} /\ b = stack[t][1]
    <2>1. Len(stack[t]) \in Nat \ {0} /\ DOMAIN stack[t] = 1 .. Len(stack[t])
      BY PopStack DEF TypeOK
    <2>2. Len(stack[t]) = 1
      <3>1. \A n \in Nat \ {0} : n <= 1 => n = 1
        OBVIOUS
      <3> QED
        BY <2>1, <3>1
    <2>3. 1 .. 1 = {1}
      OBVIOUS
    <2> QED
      BY <2>1, <2>2, <2>3 DEF Top
  <1>2. b \in Batch /\ b.lo \in Int /\ b.hi \in Int
    <2>1. b \in Batch
      BY PopStack DEF TypeOK
    <2> QED
      BY <2>1, LadderAssumption DEF Batch, Row
  <1>3. current'[t] = first /\ stack'[t] = left
    BY DEF NextSlice, TypeOK
  <1>4. Pending(t) = RowsOf(b)
    BY <1>1 DEF Pending
  <1>5. RowsOf(b) \subseteq 1 .. n_rows[t]
    BY <1>1 DEF RowsAccounted
  <1> HIDE DEF b
  <1>6. CASE whole
    <2>1. RowsOf(first) = RowsOf(b)
      BY <1>6 DEF RowsOf
    <2>2. stack'[t] = <<>> /\ Pending(t)' = {}
      BY <1>3, <1>6 DEF Pending
    <2>3. Len(stack'[t]) <= 1
      BY <2>2
    <2>4. InHand(t)' = Pending(t)
      BY <1>3, <1>4, <2>1
    <2> QED
      BY <1>4, <1>5, <2>2, <2>3, <2>4 DEF RowsAccounted
  <1>7. CASE ~whole
    <2>1. stack'[t] = <<tail>> /\ Len(stack'[t]) = 1 /\ DOMAIN stack'[t] = {1}
          /\ stack'[t][1] = tail
      BY <1>3, <1>7
    <2>2. Pending(t)' = RowsOf(tail)
      <3> HIDE DEF tail
      <3> QED
        BY <2>1 DEF Pending
    <2>3. /\ RowsOf(first) \cup RowsOf(tail) = RowsOf(b)
          /\ RowsOf(first) \cap RowsOf(tail) = {}
      BY <1>2, <1>7, LadderAssumption DEF RowsOf
    <2> HIDE DEF tail, first
    <2>4. \A i \in DOMAIN stack'[t] : RowsOf(stack'[t][i]) = RowsOf(tail)
      BY <2>1
    <2>5. \A i, j \in DOMAIN stack'[t] : i = j
      BY <2>1
    <2>6. \A r \in Row : out[t][r] =
            IF r <= n_rows[t] /\ r \notin RowsOf(first) /\ r \notin RowsOf(tail) THEN 1 ELSE 0
      BY <1>4, <2>3 DEF RowsAccounted
    <2> QED
      BY <1>3, <1>5, <2>1, <2>2, <2>3, <2>4, <2>5, <2>6 DEF RowsAccounted
  <1> QED
    BY <1>6, <1>7

LEMMA InitRows == Init => SliceInv /\ RowsInv
  <1> SUFFICES ASSUME Init PROVE SliceInv /\ RowsInv
    OBVIOUS
  <1>1. ASSUME NEW t \in Tasks
        PROVE  /\ Len(stack[t]) = 1 /\ DOMAIN stack[t] = {1}
               /\ stack[t][1] = [lo |-> 1, hi |-> n_rows[t]]
    BY DEF Init
  <1>2. ASSUME NEW t \in Tasks
        PROVE  RowsAccounted(t)
    <2>1. InHand(t) = {} /\ pc[t] = "start"
      BY DEF Init, InHand, Trying, Waiting
    <2>2. RowsOf(stack[t][1]) = 1 .. n_rows[t]
      <3> DEFINE b == [lo |-> 1, hi |-> n_rows[t]]
      <3>1. RowsOf(b) = 1 .. n_rows[t]
        BY DEF RowsOf
      <3>2. stack[t][1] = b
        BY <1>1
      <3> HIDE DEF b
      <3> QED
        BY <3>1, <3>2
    <2>3. Pending(t) = 1 .. n_rows[t]
      BY <1>1, <2>2 DEF Pending
    <2>4. \A r \in Row : out[t][r] = 0
      BY DEF Init
    <2>5. \A r \in Row : r <= n_rows[t] => r \in 1 .. n_rows[t]
      BY DEF Init, Row
    <2> QED
      BY <1>1, <2>1, <2>2, <2>3, <2>4, <2>5 DEF RowsAccounted
  <1>3. SliceInv
    <2>1. \A n : n = 1 => n <= 1
      OBVIOUS
    <2> QED
      BY <1>1, <2>1 DEF SliceInv, Tasks
  <1> QED
    BY <1>2, <1>3 DEF RowsInv

\* A step of one task leaves the rows of the others alone.
LEMMA OthersKeep ==
  ASSUME RowsInv, NEW t \in Tasks,
         \A u \in Tasks \ {t} :
           /\ pc'[u] = pc[u] /\ stack'[u] = stack[u] /\ n_rows'[u] = n_rows[u]
           /\ out'[u] = out[u] /\ current'[u] = current[u] /\ rest'[u] = rest[u],
         pc'[t] # "failed" => RowsAccounted(t)'
  PROVE  RowsInv'
  <1>1. ASSUME NEW u \in Tasks \ {t}, pc'[u] # "failed"
        PROVE  RowsAccounted(u)'
    <2>1. RowsAccounted(u)
      BY <1>1 DEF RowsInv
    <2>2. InHand(u)' = InHand(u)
      BY DEF InHand
    <2>3. pc'[u] = "done" => stack[u] = <<>>
      BY <2>1 DEF RowsAccounted
    <2> QED
      BY <2>1, <2>2, <2>3, KeepRows
  <1> QED
    BY <1>1 DEF RowsInv

\* A chunk's failed batch is halved onto the stack or handed to per_row.
LEMMA AfterFailureRows ==
  ASSUME TypeOK, NEW t \in Tasks, t \notin Callers, RowsAccounted(t),
         pc[t] \in Trying, AfterFailure(t), UNCHANGED <<n_rows, out, current>>
  PROVE  RowsAccounted(t)'
  <1>1. InHand(t) = RowsOf(current[t])
    BY DEF InHand
  <1>2. CASE result[t] = "shrinkable" /\ BatchLen(current[t]) > 1
    <2>1. pc'[t] = "loop" /\ Halve(t)
      BY <1>2 DEF AfterFailure, Goto, TypeOK
    <2>2. InHand(t)' = {}
      BY <2>1 DEF InHand, Trying
    <2> QED
      BY <1>1, <1>2, <2>1, <2>2, HalveRows
  <1>3. CASE ~(result[t] = "shrinkable" /\ BatchLen(current[t]) > 1)
    <2>1. pc'[t] = "per_row" /\ rest'[t] = RowsOf(current[t]) /\ stack' = stack
      BY <1>3 DEF AfterFailure, Goto, TypeOK
    <2>2. InHand(t)' = RowsOf(current[t])
      BY <2>1 DEF InHand, Trying
    <2> QED
      BY <1>1, <2>1, <2>2, KeepRows
  <1> QED
    BY <1>2, <1>3

\* AfterFailure touches the control point, stack and rest of its task only.
LEMMA AfterFailureFrame ==
  ASSUME TypeOK, NEW t \in Tasks, AfterFailure(t)
  PROVE  \A u \in Tasks \ {t} : pc'[u] = pc[u] /\ stack'[u] = stack[u] /\ rest'[u] = rest[u]
  BY DEF TypeOK, AfterFailure, Halve, Goto

LEMMA NextRows == IInv /\ [Next]_vars => SliceInv' /\ RowsInv'
  <1> SUFFICES ASSUME IInv, [Next]_vars
               PROVE  SliceInv' /\ RowsInv'
    OBVIOUS
  <1>a. /\ TypeOK /\ SliceInv /\ RowsInv
        /\ pc \in [Tasks -> Points]
        /\ n_rows \in [Tasks -> Row]
        /\ stack \in [Tasks -> Seq(Batch)]
        /\ current \in [Tasks -> Batch]
        /\ rest \in [Tasks -> SUBSET Row]
        /\ out \in [Tasks -> [Row -> Nat]]
        /\ \A t \in Callers : pc[t] \notin {"loop", "ruling"}
        /\ \A t \in Chunks : t \in Tasks /\ t \notin Callers
        /\ \A t \in Callers : t \in Tasks /\ t \notin Chunks
    BY TasksAssumption DEF IInv, TypeOK, GateInv, Tasks
  <1>b. ASSUME NEW t \in Tasks, pc[t] # "failed" PROVE RowsAccounted(t)
    BY <1>a, <1>b DEF RowsInv
  <1>c. ASSUME NEW t \in Tasks, stack' = [stack EXCEPT ![t] = stack'[t]],
               t \in Callers => Len(stack'[t]) <= 1
        PROVE  SliceInv'
    BY <1>a, <1>c DEF SliceInv
  <1>d. ASSUME UNCHANGED stack PROVE SliceInv'
    BY <1>a, <1>d DEF SliceInv
  <1>1. ASSUME NEW t \in Tasks, GateLoad(t) PROVE SliceInv' /\ RowsInv'
    <2> USE <1>1 DEF GateLoad, At, Goto
    <2>1. RowsAccounted(t)
      BY <1>a, <1>b
    <2>2. InHand(t)' = InHand(t) /\ pc'[t] # "done"
      BY <1>a DEF InHand, Trying, Waiting
    <2>3. RowsAccounted(t)'
      BY <1>a, <2>1, <2>2, KeepRows
    <2> QED
      BY <1>a, <1>d, <2>3, OthersKeep
  <1>2. ASSUME NEW t \in Tasks, GateAcquire(t) PROVE SliceInv' /\ RowsInv'
    <2> USE <1>2 DEF GateAcquire, At, Goto
    <2>1. RowsAccounted(t)
      BY <1>a, <1>b
    <2>2. InHand(t)' = InHand(t) /\ pc'[t] # "done"
      BY <1>a DEF InHand, Trying, Waiting
    <2>3. RowsAccounted(t)'
      BY <1>a, <2>1, <2>2, KeepRows
    <2> QED
      BY <1>a, <1>d, <2>3, OthersKeep
  <1>3. ASSUME NEW t \in Tasks, GateSettle(t) PROVE SliceInv' /\ RowsInv'
    <2> USE <1>3 DEF GateSettle, At, Goto
    <2>1. RowsAccounted(t)
      BY <1>a, <1>b
    <2>2. InHand(t)' = InHand(t) /\ pc'[t] # "done"
      BY <1>a DEF InHand, Trying, Waiting
    <2>3. RowsAccounted(t)'
      BY <1>a, <2>1, <2>2, KeepRows
    <2> QED
      BY <1>a, <1>d, <2>3, OthersKeep
  <1>4. ASSUME NEW t \in Tasks, Answer(t) PROVE SliceInv' /\ RowsInv'
    <2> USE <1>4 DEF Answer, At, Goto
    <2>1. RowsAccounted(t)
      BY <1>a, <1>b
    <2>2. InHand(t)' = InHand(t) /\ pc'[t] # "done"
      BY <1>a DEF InHand, Trying, Waiting
    <2>3. RowsAccounted(t)'
      BY <1>a, <2>1, <2>2, KeepRows
    <2> QED
      BY <1>a, <1>d, <2>3, OthersKeep
  <1>5. ASSUME NEW t \in Tasks, ReleaseGate(t) PROVE SliceInv' /\ RowsInv'
    <2> USE <1>5 DEF ReleaseGate, At, Goto
    <2>1. RowsAccounted(t)
      BY <1>a, <1>b
    <2>2. InHand(t)' = InHand(t) /\ pc'[t] # "done"
      BY <1>a DEF InHand, Trying, Waiting
    <2>3. RowsAccounted(t)'
      BY <1>a, <2>1, <2>2, KeepRows
    <2> QED
      BY <1>a, <1>d, <2>3, OthersKeep
  <1>6. ASSUME NEW t \in Tasks, Verified(t) PROVE SliceInv' /\ RowsInv'
    <2> USE <1>6 DEF Verified, At, Goto
    <2>1. RowsAccounted(t)
      BY <1>a, <1>b
    <2>2. InHand(t)' = InHand(t) /\ pc'[t] # "done"
      BY <1>a DEF InHand, Trying, Waiting
    <2>3. RowsAccounted(t)'
      BY <1>a, <2>1, <2>2, KeepRows
    <2> QED
      BY <1>a, <1>d, <2>3, OthersKeep
  <1>7. ASSUME NEW t \in Tasks, Supported(t) PROVE SliceInv' /\ RowsInv'
    <2> USE <1>7 DEF Supported, At, Goto, Produce
    <2>1. RowsAccounted(t)
      BY <1>a, <1>b
    <2>2. InHand(t) = RowsOf(current[t])
      BY <1>a DEF InHand, Trying, Waiting
    <2>3. InHand(t)' = {} /\ pc'[t] # "done"
      BY <1>a DEF InHand, Trying, Waiting
    <2>4. out'[t] = [r \in Row |-> out[t][r] + IF r \in InHand(t) THEN 1 ELSE 0]
      BY <1>a, <2>2
    <2>5. RowsAccounted(t)'
      BY <1>a, <2>1, <2>3, <2>4, ProduceRows
    <2> QED
      BY <1>a, <1>d, <2>5, OthersKeep
  <1>8. ASSUME NEW t \in Tasks, PerRowOk(t) PROVE SliceInv' /\ RowsInv'
    <2> USE <1>8 DEF PerRowOk, At, Goto, Produce
    <2>1. RowsAccounted(t)
      BY <1>a, <1>b
    <2>2. InHand(t) = rest[t]
      BY <1>a DEF InHand, Trying, Waiting
    <2>3. InHand(t)' = {} /\ pc'[t] # "done"
      BY <1>a DEF InHand, Trying, Waiting
    <2>4. out'[t] = [r \in Row |-> out[t][r] + IF r \in InHand(t) THEN 1 ELSE 0]
      BY <1>a, <2>2
    <2>5. RowsAccounted(t)'
      BY <1>a, <2>1, <2>3, <2>4, ProduceRows
    <2> QED
      BY <1>a, <1>d, <2>5, OthersKeep
  <1>9. ASSUME NEW t \in Tasks, PerRowErr(t) PROVE SliceInv' /\ RowsInv'
    BY <1>9, <1>a, <1>d, OthersKeep DEF PerRowErr, At, Goto
  <1>10. ASSUME NEW t \in Chunks, ChunkStart(t) PROVE SliceInv' /\ RowsInv'
    <2> USE <1>10 DEF ChunkStart, At, Goto, Drain
    <2>1. RowsAccounted(t)
      BY <1>a, <1>b
    <2>2. CASE worth_attempting
      <3>1. InHand(t)' = InHand(t) /\ pc'[t] # "done"
        BY <1>a, <2>2 DEF InHand, Trying, Waiting
      <3>2. RowsAccounted(t)'
        BY <1>a, <2>1, <2>2, <3>1, KeepRows
      <3> QED
        BY <1>a, <1>d, <2>2, <3>2, OthersKeep
    <2>3. CASE ~worth_attempting
      <3>1. InHand(t) = {}
        BY <1>a DEF InHand, Trying, Waiting
      <3>2. stack'[t] = <<>> /\ rest'[t] = Pending(t) /\ pc'[t] = "per_row"
        BY <1>a, <2>3
      <3>3. InHand(t)' = InHand(t) \cup Pending(t)
        BY <1>a, <3>1, <3>2 DEF InHand, Trying, Waiting
      <3>4. RowsAccounted(t)'
        BY <1>a, <2>1, <3>2, <3>3, DrainRows
      <3>5. SliceInv'
        BY <1>a, <1>c, <2>3
      <3> QED
        BY <1>a, <2>3, <3>4, <3>5, OthersKeep
    <2> QED
      BY <2>2, <2>3
  <1>11. ASSUME NEW t \in Chunks, ChunkRecheck(t) PROVE SliceInv' /\ RowsInv'
    <2> USE <1>11 DEF ChunkRecheck, At, Goto, Drain
    <2>1. RowsAccounted(t)
      BY <1>a, <1>b
    <2>2. CASE worth_attempting
      <3>1. InHand(t)' = InHand(t) /\ pc'[t] # "done"
        BY <1>a, <2>2 DEF InHand, Trying, Waiting
      <3>2. RowsAccounted(t)'
        BY <1>a, <2>1, <2>2, <3>1, KeepRows
      <3> QED
        BY <1>a, <1>d, <2>2, <3>2, OthersKeep
    <2>3. CASE ~worth_attempting
      <3>1. InHand(t) = {}
        BY <1>a DEF InHand, Trying, Waiting
      <3>2. stack'[t] = <<>> /\ rest'[t] = Pending(t) /\ pc'[t] = "per_row"
        BY <1>a, <2>3
      <3>3. InHand(t)' = InHand(t) \cup Pending(t)
        BY <1>a, <3>1, <3>2 DEF InHand, Trying, Waiting
      <3>4. RowsAccounted(t)'
        BY <1>a, <2>1, <3>2, <3>3, DrainRows
      <3>5. SliceInv'
        BY <1>a, <1>c, <2>3
      <3> QED
        BY <1>a, <2>3, <3>4, <3>5, OthersKeep
    <2> QED
      BY <2>2, <2>3
  <1>12. ASSUME NEW t \in Chunks, ChunkDone(t) PROVE SliceInv' /\ RowsInv'
    <2> USE <1>12 DEF ChunkDone, At, Goto
    <2>1. RowsAccounted(t)
      BY <1>a, <1>b
    <2>2. InHand(t)' = InHand(t) /\ stack[t] = <<>>
      BY <1>a DEF InHand, Trying, Waiting
    <2>3. RowsAccounted(t)'
      BY <1>a, <2>1, <2>2, KeepRows
    <2> QED
      BY <1>a, <1>d, <2>3, OthersKeep
  <1>13. ASSUME NEW t \in Chunks, ChunkDrain(t) PROVE SliceInv' /\ RowsInv'
    <2> USE <1>13 DEF ChunkDrain, At, Goto, Drain
    <2>1. RowsAccounted(t)
      BY <1>a, <1>b
    <2>2. CASE ~worth_attempting
      <3>1. InHand(t) = {}
        BY <1>a DEF InHand, Trying, Waiting
      <3>2. stack'[t] = <<>> /\ rest'[t] = Pending(t) /\ pc'[t] = "per_row"
        BY <1>a, <2>2
      <3>3. InHand(t)' = InHand(t) \cup Pending(t)
        BY <1>a, <3>1, <3>2 DEF InHand, Trying, Waiting
      <3>4. RowsAccounted(t)'
        BY <1>a, <2>1, <3>2, <3>3, DrainRows
      <3>5. SliceInv'
        BY <1>a, <1>c, <2>2
      <3> QED
        BY <1>a, <2>2, <3>4, <3>5, OthersKeep
    <2> QED
      BY <2>2
  <1>14. ASSUME NEW t \in Chunks, ChunkSend(t) PROVE SliceInv' /\ RowsInv'
    <2> USE <1>14 DEF ChunkSend, At, Goto
    <2>1. RowsAccounted(t)
      BY <1>a, <1>b
    <2>2. InHand(t) = {}
      BY <1>a DEF InHand, Trying, Waiting
    <2>3. /\ current'[t] = Top(stack[t]) /\ stack'[t] = Pop(stack[t])
          /\ pc'[t] = "await"
      BY <1>a
    <2>4. InHand(t)' = RowsOf(Top(stack[t]))
      BY <2>3 DEF InHand, Trying
    <2>5. RowsAccounted(t)'
      BY <1>a, <2>1, <2>2, <2>3, <2>4, TakeRows
    <2>6. SliceInv'
      BY <1>a, <1>c
    <2> QED
      BY <1>a, <2>5, <2>6, OthersKeep
  <1>15. ASSUME NEW t \in Chunks, ChunkUnavailable(t) PROVE SliceInv' /\ RowsInv'
    <2> USE <1>15 DEF ChunkUnavailable, At, Goto, Drain
    <2>1. RowsAccounted(t)
      BY <1>a, <1>b
    <2>2. InHand(t) = RowsOf(current[t])
      BY <1>a DEF InHand, Trying, Waiting
    <2>3. /\ stack'[t] = <<>> /\ rest'[t] = RowsOf(current[t]) \cup Pending(t)
          /\ pc'[t] = "per_row"
      BY <1>a
    <2>4. InHand(t)' = InHand(t) \cup Pending(t)
      BY <1>a, <2>2, <2>3 DEF InHand, Trying, Waiting
    <2>5. RowsAccounted(t)'
      BY <1>a, <2>1, <2>3, <2>4, DrainRows
    <2>6. SliceInv'
      BY <1>a, <1>c
    <2> QED
      BY <1>a, <2>5, <2>6, OthersKeep
  <1>16. ASSUME NEW t \in Chunks, ChunkSilentFailure(t) PROVE SliceInv' /\ RowsInv'
    <2> USE <1>16 DEF ChunkSilentFailure, At, Goto
    <2>1. RowsAccounted(t)
      BY <1>a, <1>b
    <2>2. CASE failure_limit_reached
      <3>1. InHand(t)' = InHand(t) /\ pc'[t] # "done"
        BY <1>a, <2>2 DEF InHand, Trying, Waiting
      <3>2. RowsAccounted(t)'
        BY <1>a, <2>1, <2>2, <3>1, KeepRows
      <3> QED
        BY <1>a, <1>d, <2>2, <3>2, OthersKeep
    <2>3. CASE ~failure_limit_reached
      <3>1. pc[t] \in Trying
        BY DEF Trying
      <3>2. RowsAccounted(t)'
        BY <1>a, <2>1, <2>3, <3>1, AfterFailureRows
      <3>3. \A u \in Tasks \ {t} : pc'[u] = pc[u] /\ stack'[u] = stack[u] /\ rest'[u] = rest[u]
        BY <1>a, <2>3, AfterFailureFrame
      <3>4. SliceInv'
        BY <1>a, <3>3 DEF SliceInv
      <3> QED
        BY <1>a, <3>2, <3>3, <3>4, OthersKeep
    <2> QED
      BY <2>2, <2>3
  <1>17. ASSUME NEW t \in Chunks, ChunkRuling(t) PROVE SliceInv' /\ RowsInv'
    <2> USE <1>17 DEF ChunkRuling, At, Goto
    <2>1. RowsAccounted(t)
      BY <1>a, <1>b
    <2>2. AfterFailure(t)
      OBVIOUS
    <2> QED
      <3>1. pc[t] \in Trying
        BY DEF Trying
      <3>2. RowsAccounted(t)'
        BY <1>a, <2>1, <2>2, <3>1, AfterFailureRows
      <3>3. \A u \in Tasks \ {t} : pc'[u] = pc[u] /\ stack'[u] = stack[u] /\ rest'[u] = rest[u]
        BY <1>a, <2>2, AfterFailureFrame
      <3>4. SliceInv'
        BY <1>a, <3>3 DEF SliceInv
      <3> QED
        BY <1>a, <3>2, <3>3, <3>4, OthersKeep
  <1>18. ASSUME NEW t \in Callers, CallerDone(t) PROVE SliceInv' /\ RowsInv'
    <2> USE <1>18 DEF CallerDone, At, Goto
    <2>1. RowsAccounted(t)
      BY <1>a, <1>b
    <2>2. InHand(t)' = InHand(t) /\ stack[t] = <<>>
      BY <1>a DEF InHand, Trying, Waiting
    <2>3. RowsAccounted(t)'
      BY <1>a, <2>1, <2>2, KeepRows
    <2> QED
      BY <1>a, <1>d, <2>3, OthersKeep
  <1>19. ASSUME NEW t \in Callers, CallerStart(t) PROVE SliceInv' /\ RowsInv'
    <2> USE <1>19 DEF CallerStart, At, Goto
    <2>1. RowsAccounted(t)
      BY <1>a, <1>b
    <2>2. InHand(t) = {} /\ Len(stack[t]) <= 1
      BY <1>a DEF InHand, Trying, Waiting, SliceInv
    <2>3. /\ NextSlice(t)
          /\ pc'[t] = "gate" \/ (pc'[t] = "per_row" /\ rest'[t] = RowsOf(current'[t]))
      BY <1>a
    <2>4. InHand(t)' = RowsOf(current'[t]) /\ pc'[t] # "done"
      BY <1>a, <2>3 DEF InHand, Trying, Waiting
    <2>5. RowsAccounted(t)' /\ Len(stack'[t]) <= 1
      BY <1>a, <2>1, <2>2, <2>3, <2>4, SliceRows
    <2>6. \A u \in Tasks \ {t} : /\ pc'[u] = pc[u] /\ rest'[u] = rest[u]
                                 /\ stack'[u] = stack[u] /\ current'[u] = current[u]
      BY <1>a DEF NextSlice
    <2>7. SliceInv'
      BY <1>a, <2>5, <2>6 DEF SliceInv
    <2> QED
      BY <1>a, <2>5, <2>6, <2>7, OthersKeep
  <1>20. ASSUME NEW t \in Callers, CallerRecheck(t) PROVE SliceInv' /\ RowsInv'
    <2> USE <1>20 DEF CallerRecheck, At, Goto
    <2>1. RowsAccounted(t)
      BY <1>a, <1>b
    <2>2. InHand(t)' = InHand(t) /\ pc'[t] # "done"
      BY <1>a DEF InHand, Trying, Waiting
    <2>3. RowsAccounted(t)'
      BY <1>a, <2>1, <2>2, KeepRows
    <2> QED
      BY <1>a, <1>d, <2>3, OthersKeep
  <1>21. ASSUME NEW t \in Callers, CallerFailure(t) PROVE SliceInv' /\ RowsInv'
    <2> USE <1>21 DEF CallerFailure, At, Goto
    <2>1. RowsAccounted(t)
      BY <1>a, <1>b
    <2>2. InHand(t)' = InHand(t) /\ pc'[t] # "done"
      BY <1>a DEF InHand, Trying, Waiting
    <2>3. RowsAccounted(t)'
      BY <1>a, <2>1, <2>2, KeepRows
    <2> QED
      BY <1>a, <1>d, <2>3, OthersKeep
  <1>22. ASSUME UNCHANGED vars PROVE SliceInv' /\ RowsInv'
    <2>1. UNCHANGED taskVars
      BY <1>22 DEF vars
    <2> QED
      BY <1>a, <2>1 DEF taskVars, SliceInv, RowsInv, RowsAccounted, InHand, Pending
  <1> QED
    BY NextCases, <1>1, <1>2, <1>3, <1>4, <1>5, <1>6, <1>7, <1>8, <1>9, <1>10, <1>11, <1>12, <1>13, <1>14, <1>15, <1>16, <1>17, <1>18, <1>19, <1>20, <1>21, <1>22

-----------------------------------------------------------------------------
LEMMA Inductive == Spec => []IInv
  <1>1. Init => IInv
    BY InitType, InitGate, InitRows DEF IInv
  <1>2. IInv /\ [Next]_vars => IInv'
    BY NextType, NextGate, NextRows DEF IInv
  <1> QED
    BY <1>1, <1>2, PTL DEF Spec

(***************************************************************************)
(* While the verdict is open, a first extractor request is only ever out   *)
(* under the permit of gate_first_attempt, so at most one task at a time   *)
(* is discovering the endpoint.                                            *)
(***************************************************************************)
THEOREM GateSerialises == Spec => []FirstAttemptGated
  <1>1. IInv => FirstAttemptGated
    BY DEF IInv, GateInv
  <1> QED
    BY <1>1, Inductive, PTL

(***************************************************************************)
(* The permit of first_attempt is never leaked: its holder is still        *)
(* between the acquire and the release.                                    *)
(***************************************************************************)
THEOREM PermitReturned == Spec => []NoLeakedPermit
  <1>1. IInv => NoLeakedPermit
    BY DEF IInv, TypeOK, SupportTypeOK, GateInv, NoLeakedPermit
  <1> QED
    BY <1>1, Inductive, PTL

(***************************************************************************)
(* extractor_batch_with_fallback and read_storage_slots return each row    *)
(* exactly once, for every batch size, every outcome of every request and  *)
(* every interleaving.                                                     *)
(***************************************************************************)
THEOREM RowsExactlyOnce == Spec => []EveryRowOnce
  <1>1. IInv => EveryRowOnce
    <2> SUFFICES ASSUME IInv, NEW t \in Tasks, pc[t] = "done", NEW r \in Row
                 PROVE  out[t][r] = IF r <= n_rows[t] THEN 1 ELSE 0
      BY DEF EveryRowOnce
    <2>1. RowsAccounted(t)
      BY DEF IInv, RowsInv
    <2>2. InHand(t) = {}
      BY DEF InHand, Trying, Waiting
    <2>3. Pending(t) = {}
      BY <2>1 DEF RowsAccounted, Pending
    <2> QED
      BY <2>1, <2>2, <2>3 DEF RowsAccounted
  <1> QED
    BY <1>1, Inductive, PTL

-----------------------------------------------------------------------------
(***************************************************************************)
(* What the consecutive_failures backstop is worth, for any number of      *)
(* chunks, rows and callers and any limit: against an endpoint that never  *)
(* verifies a batch, the chunks of a run send at most one request each     *)
(* beyond the failures below the limit.                                    *)
(***************************************************************************)

\* The endpoints and the runs the bound is about.
Doomed ==
  /\ "verified" \notin BatchOutcomes
  /\ SilentFailureLimit + Cardinality(Chunks) <= CounterModulus

\* The chunks whose request has not been counted yet, or was counted at the limit.
Out == {t \in Chunks : pc[t] \in {"await", "release", "interpret", "ruling"}}
Ruling == {t \in Chunks : pc[t] = "ruling"}

\* No answer in hand is a verified one.
NothingVerified ==
  \A t \in Tasks :
    /\ pc[t] # "supported"
    /\ pc[t] \in {"release", "interpret"} => result[t] # "verified"

(***************************************************************************)
(* The bound alone is not inductive: a chunk may send while it holds with  *)
(* equality, unless each request is charged to a counted failure or to the *)
(* chunk that has it out.  A chunk that reaches the limit keeps its charge *)
(* until RULED_OUT is stored, since others may still send in between; the  *)
(* counter passes the limit once per such chunk and so does not wrap.      *)
(***************************************************************************)
CostInv ==
  /\ IsFiniteSet(ChunkRequests)
  /\ Cardinality(ChunkRequests) <= SilentFailureLimit - 1 + Cardinality(Chunks)
  /\ NothingVerified
  /\ state # "RULED_OUT" =>
       /\ consecutive_failures <= SilentFailureLimit - 1 + Cardinality(Ruling)
       /\ Cardinality(ChunkRequests) <= Cardinality(Out) + SilentFailureLimit - 1
       /\ consecutive_failures < SilentFailureLimit =>
            Cardinality(ChunkRequests) <= Cardinality(Out) + consecutive_failures

DoomedInv == Doomed => CostInv

-----------------------------------------------------------------------------
(* Sets of chunks are finite and no larger than all of them.               *)
LEMMA ChunkSets ==
  ASSUME NEW S, S \subseteq Chunks
  PROVE  /\ IsFiniteSet(S)
         /\ Cardinality(S) \in Nat
         /\ Cardinality(Chunks) \in Nat
         /\ Cardinality(S) <= Cardinality(Chunks)
         /\ S # Chunks => Cardinality(S) < Cardinality(Chunks)
  BY ChunksAssumption, FS_Subset, FS_CardinalityType

LEMMA OutSets ==
  /\ Cardinality(Out) \in Nat /\ Cardinality(Ruling) \in Nat
  /\ Cardinality(Chunks) \in Nat
  /\ Cardinality(Out) <= Cardinality(Chunks)
  BY ChunkSets DEF Out, Ruling

(* The requests are a function of what the chunks have sent.               *)
LEMMA SameRequests ==
  ASSUME NEW s, NEW r, \A t \in Chunks : s[t] = r[t]
  PROVE  UNION {{t} \X (1 .. s[t]) : t \in Chunks} = UNION {{t} \X (1 .. r[t]) : t \in Chunks}
  <1>1. {{t} \X (1 .. s[t]) : t \in Chunks} = {{t} \X (1 .. r[t]) : t \in Chunks}
    OBVIOUS
  <1> QED
    BY <1>1

(* A step that is neither a send nor a counted failure of a chunk.         *)
LEMMA CostKept ==
  ASSUME CostInv, NothingVerified',
         \A t \in Chunks : sent'[t] = sent[t],
         \/ state' = "RULED_OUT"
         \/ /\ state' = state
            /\ consecutive_failures' = consecutive_failures
            /\ \A t \in Chunks : t \in Out' <=> t \in Out
            /\ \A t \in Chunks : t \in Ruling' <=> t \in Ruling
  PROVE  CostInv'
  <1>1. ChunkRequests' = ChunkRequests
    BY SameRequests DEF ChunkRequests
  <1>2. CASE state' = "RULED_OUT"
    BY <1>1, <1>2 DEF CostInv
  <1>3. CASE state' # "RULED_OUT"
    <2>1. Out' = Out /\ Ruling' = Ruling
      BY <1>3 DEF Out, Ruling
    <2> QED
      BY <1>1, <1>3, <2>1 DEF CostInv
  <1> QED
    BY <1>2, <1>3

(* One more request, and its chunk is out.                                 *)
LEMMA CostOfSend ==
  ASSUME TypeOK, CostInv, NEW t \in Chunks, ChunkSend(t)
  PROVE  CostInv'
  <1>1. /\ t \in Tasks /\ sent \in [Tasks -> Nat] /\ sent[t] \in Nat
        /\ pc \in [Tasks -> Points] /\ result \in [Tasks -> Outcomes]
    BY DEF TypeOK, Tasks
  <1>2. /\ sent' = [sent EXCEPT ![t] = sent[t] + 1] /\ pc' = [pc EXCEPT ![t] = "await"]
        /\ pc[t] = "loop" /\ state # "RULED_OUT" /\ result' = result
        /\ state' = state /\ consecutive_failures' = consecutive_failures
    BY DEF ChunkSend, Goto, At, worth_attempting, supportVars
  <1>3. ChunkRequests' = ChunkRequests \cup {<<t, sent[t] + 1>>}
    <2>1. ASSUME NEW x \in ChunkRequests' PROVE x \in ChunkRequests \cup {<<t, sent[t] + 1>>}
      <3>1. PICK u \in Chunks : x \in {u} \X (1 .. sent'[u])
        BY <2>1 DEF ChunkRequests
      <3>2. PICK k \in 1 .. sent'[u] : x = <<u, k>>
        BY <3>1
      <3>3. CASE u = t
        <4>1. sent'[u] = sent[t] + 1
          BY <1>1, <1>2, <3>3
        <4>2. k \in 1 .. sent[t] \/ k = sent[t] + 1
          BY <1>1, <3>2, <4>1
        <4> QED
          BY <3>2, <3>3, <4>2 DEF ChunkRequests
      <3>4. CASE u # t
        <4>1. sent'[u] = sent[u]
          BY <1>1, <1>2, <3>4 DEF Tasks
        <4> QED
          BY <3>1, <4>1 DEF ChunkRequests
      <3> QED
        BY <3>3, <3>4
    <2>2. ASSUME NEW x \in ChunkRequests PROVE x \in ChunkRequests'
      <3>1. PICK u \in Chunks : x \in {u} \X (1 .. sent[u])
        BY <2>2 DEF ChunkRequests
      <3>2. PICK k \in 1 .. sent[u] : x = <<u, k>>
        BY <3>1
      <3>3. k \in 1 .. sent'[u]
        BY <1>1, <1>2, <3>2 DEF Tasks
      <3> QED
        BY <3>2, <3>3 DEF ChunkRequests
    <2>3. <<t, sent[t] + 1>> \in ChunkRequests'
      <3>1. sent[t] + 1 \in 1 .. sent'[t]
        BY <1>1, <1>2
      <3> QED
        BY <3>1 DEF ChunkRequests
    <2> QED
      BY <2>1, <2>2, <2>3
  <1>4. <<t, sent[t] + 1>> \notin ChunkRequests
    <2> SUFFICES ASSUME <<t, sent[t] + 1>> \in ChunkRequests PROVE FALSE
      OBVIOUS
    <2>1. PICK u \in Chunks : <<t, sent[t] + 1>> \in {u} \X (1 .. sent[u])
      BY DEF ChunkRequests
    <2>2. sent[t] + 1 \in 1 .. sent[t]
      BY <2>1
    <2> QED
      BY <1>1, <2>2
  <1>5. /\ IsFiniteSet(ChunkRequests')
        /\ Cardinality(ChunkRequests') = Cardinality(ChunkRequests) + 1
        /\ Cardinality(ChunkRequests) \in Nat
    BY <1>3, <1>4, FS_AddElement, FS_CardinalityType DEF CostInv
  <1>6. /\ Out' = Out \cup {t} /\ t \notin Out
        /\ Ruling' = Ruling
    BY <1>1, <1>2 DEF Out, Ruling, Tasks
  <1>7. /\ Cardinality(Out') = Cardinality(Out) + 1
        /\ Cardinality(Out') <= Cardinality(Chunks)
    <2>1. IsFiniteSet(Out) /\ Out' \subseteq Chunks
      BY <1>6, ChunkSets DEF Out
    <2> QED
      BY <1>6, <2>1, FS_AddElement, ChunkSets
  <1>8. NothingVerified'
    BY <1>1, <1>2 DEF CostInv, NothingVerified, Tasks
  <1>9. SilentFailureLimit \in Nat /\ consecutive_failures \in Nat
    BY CounterAssumption DEF TypeOK, SupportTypeOK
  <1>10. /\ Cardinality(ChunkRequests') <= Cardinality(Out') + SilentFailureLimit - 1
         /\ Cardinality(ChunkRequests') <= SilentFailureLimit - 1 + Cardinality(Chunks)
         /\ consecutive_failures' < SilentFailureLimit =>
              Cardinality(ChunkRequests') <= Cardinality(Out') + consecutive_failures'
    BY <1>2, <1>5, <1>7, <1>9, OutSets DEF CostInv
  <1>11. consecutive_failures' <= SilentFailureLimit - 1 + Cardinality(Ruling')
    BY <1>2, <1>6 DEF CostInv
  <1> QED
    BY <1>5, <1>8, <1>10, <1>11 DEF CostInv

(* A failure that is counted: below the limit it takes over the charge of  *)
(* its chunk, at the limit the chunk keeps it.                             *)
LEMMA CostOfFailure ==
  ASSUME TypeOK, Doomed, CostInv, NEW t \in Chunks, ChunkSilentFailure(t)
  PROVE  CostInv'
  <1>1. /\ t \in Tasks /\ pc \in [Tasks -> Points] /\ result \in [Tasks -> Outcomes]
        /\ consecutive_failures \in Nat /\ consecutive_failures < CounterModulus
        /\ SilentFailureLimit \in Nat \ {0} /\ CounterModulus \in Nat
    BY CounterAssumption DEF TypeOK, SupportTypeOK, Tasks
  <1>2. /\ pc[t] = "interpret" /\ sent' = sent /\ result' = result /\ state' = state
        /\ consecutive_failures' = (consecutive_failures + 1) % CounterModulus
        /\ \/ /\ (consecutive_failures + 1) % CounterModulus >= SilentFailureLimit
              /\ pc' = [pc EXCEPT ![t] = "ruling"]
           \/ /\ ~((consecutive_failures + 1) % CounterModulus >= SilentFailureLimit)
              /\ \E p \in {"loop", "per_row"} : pc' = [pc EXCEPT ![t] = p]
    BY DEF ChunkSilentFailure, AfterFailure, Goto, At, count_failure, failure_limit_reached
  <1>3. ChunkRequests' = ChunkRequests
    BY <1>2 DEF ChunkRequests
  <1>4. NothingVerified'
    BY <1>1, <1>2 DEF CostInv, NothingVerified
  <1>5. CASE state = "RULED_OUT"
    BY <1>2, <1>3, <1>4, <1>5 DEF CostInv
  <1>6. CASE state # "RULED_OUT"
    <2>1. /\ consecutive_failures <= SilentFailureLimit - 1 + Cardinality(Ruling)
          /\ Cardinality(ChunkRequests) <= Cardinality(Out) + SilentFailureLimit - 1
          /\ consecutive_failures < SilentFailureLimit =>
               Cardinality(ChunkRequests) <= Cardinality(Out) + consecutive_failures
          /\ Cardinality(ChunkRequests) \in Nat
      BY <1>6, FS_CardinalityType DEF CostInv
    <2>2. t \notin Ruling /\ t \in Out
      BY <1>2 DEF Ruling, Out
    <2>3. /\ IsFiniteSet(Ruling) /\ IsFiniteSet(Out)
          /\ Cardinality(Ruling) < Cardinality(Chunks)
      BY <2>2, ChunkSets DEF Ruling, Out
    <2>4. consecutive_failures' = consecutive_failures + 1
      <3>1. consecutive_failures + 1 < CounterModulus
        BY <1>1, <2>1, <2>3, OutSets DEF Doomed
      <3>2. \A n, m \in Nat : n < m => n % m = n
        OBVIOUS
      <3> QED
        BY <1>1, <1>2, <3>1, <3>2
    <2>5. CASE consecutive_failures + 1 >= SilentFailureLimit
      <3>1. pc' = [pc EXCEPT ![t] = "ruling"]
        BY <1>2, <2>4, <2>5
      <3>2. Out' = Out /\ Ruling' = Ruling \cup {t}
        BY <1>1, <1>2, <3>1 DEF Out, Ruling, Tasks
      <3>3. Cardinality(Ruling') = Cardinality(Ruling) + 1
        BY <2>2, <2>3, <3>2, FS_AddElement
      <3>4. /\ consecutive_failures' <= SilentFailureLimit - 1 + Cardinality(Ruling')
            /\ ~(consecutive_failures' < SilentFailureLimit)
        BY <1>1, <2>1, <2>4, <2>5, <3>3, OutSets
      <3> QED
        BY <1>3, <1>4, <2>1, <3>2, <3>4 DEF CostInv
    <2>6. CASE ~(consecutive_failures + 1 >= SilentFailureLimit)
      <3>1. PICK p \in {"loop", "per_row"} : pc' = [pc EXCEPT ![t] = p]
        BY <1>2, <2>4, <2>6
      <3>2. Out' = Out \ {t} /\ Ruling' = Ruling
        BY <1>1, <1>2, <3>1 DEF Out, Ruling, Tasks
      <3>3. Cardinality(Out') = Cardinality(Out) - 1
        BY <2>2, <2>3, <3>2, FS_RemoveElement
      <3>4. /\ consecutive_failures' <= SilentFailureLimit - 1 + Cardinality(Ruling')
            /\ Cardinality(ChunkRequests') <= Cardinality(Out') + SilentFailureLimit - 1
            /\ Cardinality(ChunkRequests') <= Cardinality(Out') + consecutive_failures'
        BY <1>1, <1>3, <2>1, <2>4, <2>6, <3>2, <3>3, OutSets
      <3> QED
        BY <1>3, <1>4, <3>4 DEF CostInv
    <2> QED
      BY <2>5, <2>6
  <1> QED
    BY <1>5, <1>6

-----------------------------------------------------------------------------
LEMMA InitCost == Init => CostInv
  <1> SUFFICES ASSUME Init PROVE CostInv
    OBVIOUS
  <1>1. /\ \A t \in Tasks : pc[t] = "start" /\ sent[t] = 0
        /\ consecutive_failures = 0
    BY DEF Init, SupportInit
  <1>2. ChunkRequests = {}
    <2>1. \A t \in Chunks : {t} \X (1 .. sent[t]) = {}
      BY <1>1 DEF Tasks
    <2> QED
      BY <2>1 DEF ChunkRequests
  <1>3. IsFiniteSet(ChunkRequests) /\ Cardinality(ChunkRequests) = 0
    BY <1>2, FS_EmptySet
  <1>4. NothingVerified
    BY <1>1 DEF NothingVerified
  <1> QED
    BY <1>1, <1>3, <1>4, OutSets, CounterAssumption DEF CostInv

LEMMA NextCost == TypeOK /\ Doomed /\ CostInv /\ [Next]_vars => CostInv'
  <1> SUFFICES ASSUME TypeOK, Doomed, CostInv, [Next]_vars
               PROVE  CostInv'
    OBVIOUS
  <1>a. /\ pc \in [Tasks -> Points] /\ sent \in [Tasks -> Nat] /\ result \in [Tasks -> Outcomes]
        /\ NothingVerified
    BY DEF TypeOK, CostInv
  <1>b. \A t \in Chunks : t \in Tasks /\ t \notin Callers
    BY TasksAssumption DEF Tasks
  <1>c. \A t \in Callers : t \in Tasks /\ t \notin Chunks
    BY TasksAssumption DEF Tasks
  <1> DEFINE Kept ==
        /\ NothingVerified'
        /\ \A t \in Chunks : sent'[t] = sent[t]
        /\ \/ state' = "RULED_OUT"
           \/ /\ state' = state
              /\ consecutive_failures' = consecutive_failures
              /\ \A t \in Chunks : t \in Out' <=> t \in Out
              /\ \A t \in Chunks : t \in Ruling' <=> t \in Ruling
  <1>k. ASSUME Kept PROVE CostInv'
    BY <1>k, CostKept
  <1> USE <1>a, <1>b, <1>c DEF NothingVerified, Out, Ruling, At, Goto, supportVars
  <1>1. ASSUME NEW t \in Tasks, GateLoad(t) PROVE Kept
    BY <1>1 DEF GateLoad
  <1>2. ASSUME NEW t \in Tasks, GateAcquire(t) PROVE Kept
    BY <1>2 DEF GateAcquire
  <1>3. ASSUME NEW t \in Tasks, GateSettle(t) PROVE Kept
    BY <1>3 DEF GateSettle
  <1>4. ASSUME NEW t \in Tasks, Answer(t) PROVE Kept
    BY <1>4 DEF Answer, Doomed
  <1>5. ASSUME NEW t \in Tasks, ReleaseGate(t) PROVE Kept
    BY <1>5 DEF ReleaseGate
  <1>6. ASSUME NEW t \in Tasks, Verified(t) PROVE Kept
    BY <1>6 DEF Verified
  <1>7. ASSUME NEW t \in Tasks, Supported(t) PROVE Kept
    BY <1>7 DEF Supported
  <1>8. ASSUME NEW t \in Tasks, PerRowOk(t) PROVE Kept
    BY <1>8 DEF PerRowOk
  <1>9. ASSUME NEW t \in Tasks, PerRowErr(t) PROVE Kept
    BY <1>9 DEF PerRowErr
  <1>10. ASSUME NEW t \in Chunks, ChunkStart(t) PROVE Kept
    BY <1>10 DEF ChunkStart, Drain
  <1>11. ASSUME NEW t \in Chunks, ChunkRecheck(t) PROVE Kept
    BY <1>11 DEF ChunkRecheck, Drain
  <1>12. ASSUME NEW t \in Chunks, ChunkDone(t) PROVE Kept
    BY <1>12 DEF ChunkDone
  <1>13. ASSUME NEW t \in Chunks, ChunkDrain(t) PROVE Kept
    BY <1>13 DEF ChunkDrain, Drain
  <1>14. ASSUME NEW t \in Chunks, ChunkSend(t) PROVE CostInv'
    BY <1>14, CostOfSend
  <1>15. ASSUME NEW t \in Chunks, ChunkUnavailable(t) PROVE Kept
    BY <1>15 DEF ChunkUnavailable, Drain, rule_out
  <1>16. ASSUME NEW t \in Chunks, ChunkSilentFailure(t) PROVE CostInv'
    BY <1>16, CostOfFailure
  <1>17. ASSUME NEW t \in Chunks, ChunkRuling(t) PROVE Kept
    BY <1>17 DEF ChunkRuling, AfterFailure, rule_out
  <1>18. ASSUME NEW t \in Callers, CallerDone(t) PROVE Kept
    BY <1>18 DEF CallerDone
  <1>19. ASSUME NEW t \in Callers, CallerStart(t) PROVE Kept
    BY <1>19 DEF CallerStart
  <1>20. ASSUME NEW t \in Callers, CallerRecheck(t) PROVE Kept
    BY <1>20 DEF CallerRecheck
  <1>21. ASSUME NEW t \in Callers, CallerFailure(t) PROVE Kept
    BY <1>21 DEF CallerFailure, rule_out
  <1>22. ASSUME UNCHANGED vars PROVE Kept
    BY <1>22 DEF vars, taskVars
  <1> HIDE DEF Kept, NothingVerified, Out, Ruling, At, Goto, supportVars
  <1> QED
    BY NextCases, <1>k, <1>1, <1>2, <1>3, <1>4, <1>5, <1>6, <1>7, <1>8, <1>9, <1>10, <1>11, <1>12, <1>13, <1>14, <1>15, <1>16, <1>17, <1>18, <1>19, <1>20, <1>21, <1>22

(***************************************************************************)
(* SILENT_FAILURE_LIMIT bounds what a run sends to an endpoint that never  *)
(* verifies a batch: the limit less one, plus one request for each chunk,  *)
(* however the chunks' fetch_add, rule_out and worth_attempting interleave *)
(* and however deep each would have halved.                                *)
(***************************************************************************)
THEOREM CostTheorem == Spec => []DoomedCost
  <1>1. Init => DoomedInv
    BY InitCost DEF DoomedInv
  <1>2. TypeOK /\ DoomedInv /\ [Next]_vars => DoomedInv'
    BY NextCost DEF DoomedInv, Doomed
  <1>3. DoomedInv => DoomedCost
    BY DEF DoomedInv, Doomed, CostInv, DoomedCost
  <1> QED
    BY <1>1, <1>2, <1>3, TypeCorrect, PTL DEF Spec
=============================================================================
