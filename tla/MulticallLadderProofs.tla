------------------------ MODULE MulticallLadderProofs -----------------------
(***************************************************************************)
(* For blocks of any number of rows, any budget and any number of inner    *)
(* calls, whichever requests are refused: the rows of a batch come out in  *)
(* the order they went in, a null is a refusal of the contract, and n rows *)
(* take at most 2n - 1 requests that respect the budget.                   *)
(***************************************************************************)
EXTENDS MulticallLadder, SequenceTheorems, TLAPS

\* A non-empty run of consecutive rows, and the last of them.
IsRun(s) ==
  /\ s \in Seq(Int)
  /\ Len(s) >= 1
  /\ \A i \in 1 .. Len(s) : s[i] = s[1] + i - 1

Hi(s) == s[1] + Len(s) - 1

(***************************************************************************)
(* The rows still to be answered, when P is read from its end: the runs    *)
(* follow one another from row next to row last with nothing between them. *)
(* The bound on Hi(P[i]) says that below P[i] lie i - 1 runs of at least   *)
(* one row each; with it the number of runs is bounded by that of rows.    *)
(***************************************************************************)
Chain(P, next, last) ==
  /\ \A i \in 1 .. Len(P) : IsRun(P[i]) /\ Hi(P[i]) + i - 1 <= last
  /\ \A i \in 1 .. Len(P) - 1 : P[i][1] = Hi(P[i + 1]) + 1
  /\ IF Len(P) = 0 THEN next = last + 1 ELSE P[Len(P)][1] = next /\ Hi(P[1]) = last

\* The runs of the task: those on the stack and the one in its hands.
Holding == pc \in {"await", "extract"}

Pending == IF Holding THEN Append(stack, current) ELSE stack

AnswerSet == [row : Int, null : BOOLEAN]

TypeOK ==
  /\ require_success \in BOOLEAN
  /\ deployed \in BOOLEAN
  /\ calls \in Nat
  /\ budget \in Nat \ {0}
  /\ IsRun(batch)
  /\ stack \in Seq(Seq(Int))
  /\ current \in Seq(Int)
  /\ out \in Seq(AnswerSet)
  /\ pc \in {"loop", "await", "extract", "ok", "err"}
  /\ sent \in Nat

OutInv ==
  /\ Len(out) <= Len(batch)
  /\ \A i \in 1 .. Len(out) :
       /\ out[i] = Answer(batch[i])
       /\ require_success /\ deployed => batch[i] \notin reverts

LadderInv ==
  /\ deployed /\ pc # "err" => Chain(Pending, batch[1] + Len(out), Hi(batch))
  /\ pc = "ok" => Len(out) = Len(batch) /\ (deployed => stack = <<>>)
  /\ deployed /\ pc = "extract" => Len(current) = 1 /\ ~require_success
  /\ ~deployed => /\ Len(batch) = 1
                  /\ pc \in {"extract", "ok", "err"}
                  /\ pc = "extract" => out = <<>>

\* A request is paid for by the row it answers or by the run it adds.
CountInv ==
  /\ deployed => Len(batch) <= rows_per_batch(budget, calls)
  /\ deployed /\ pc # "err" =>
       sent <= 2 * Len(out) + Len(Pending) - IF Holding THEN 0 ELSE 1
  /\ deployed /\ pc = "err" => sent <= 2 * Len(batch) - 1
  /\ ~deployed => sent = 0

IInv == TypeOK /\ OutInv /\ LadderInv /\ CountInv

-----------------------------------------------------------------------------
(* Runs and chains, for any rows.                                          *)

LEMMA RunOf ==
  ASSUME NEW lo \in Int, NEW hi \in Int, lo <= hi
  PROVE  /\ IsRun(Run(lo, hi))
         /\ Run(lo, hi)[1] = lo /\ Len(Run(lo, hi)) = hi - lo + 1
         /\ Hi(Run(lo, hi)) = hi
  <1> DEFINE r == Run(lo, hi)
             k == hi - lo + 1
  <1>1. k \in Nat /\ k >= 1
    OBVIOUS
  <1>2. r \in [1 .. k -> Int] /\ \A i \in 1 .. k : r[i] = lo + i - 1
    BY DEF Run
  <1> HIDE DEF r
  <1>3. r \in Seq(Int) /\ Len(r) = k
    BY <1>1, <1>2
  <1>4. r[1] = lo
    BY <1>1, <1>2
  <1> QED
    BY <1>1, <1>2, <1>3, <1>4 DEF IsRun, Hi, r

LEMMA RunFacts ==
  ASSUME NEW s, IsRun(s)
  PROVE  s[1] \in Int /\ Len(s) \in Nat /\ Len(s) >= 1 /\ Hi(s) \in Int /\ s[1] <= Hi(s)
  BY DEF IsRun, Hi

(* The two halves of a run are runs that follow one another.               *)
LEMMA HalvesOfRun ==
  ASSUME NEW s, IsRun(s), Len(s) > 1
  PROVE  LET mid == Len(s) \div 2
             left == SubSeq(s, 1, mid)
             right == SubSeq(s, mid + 1, Len(s))
         IN  /\ IsRun(left) /\ IsRun(right)
             /\ left[1] = s[1] /\ right[1] = Hi(left) + 1 /\ Hi(right) = Hi(s)
  <1> DEFINE mid == Len(s) \div 2
             left == SubSeq(s, 1, mid)
             right == SubSeq(s, mid + 1, Len(s))
  <1>1. /\ s \in Seq(Int) /\ Len(s) \in Nat /\ s[1] \in Int
        /\ \A i \in 1 .. Len(s) : s[i] \in Int /\ s[i] = s[1] + i - 1
    BY DEF IsRun
  <1>2. mid \in Nat /\ 1 <= mid /\ mid < Len(s)
    BY <1>1
  <1> HIDE DEF mid
  <1>3. /\ left \in Seq(Int) /\ Len(left) = mid
        /\ \A i \in 1 .. mid : left[i] = s[i]
    <2>1. /\ left \in Seq(Int)
          /\ Len(left) = IF 1 <= mid THEN mid - 1 + 1 ELSE 0
          /\ \A i \in 1 .. mid - 1 + 1 : left[i] = s[1 + i - 1]
      BY <1>1, <1>2, SubSeqProperties
    <2> HIDE DEF left
    <2>2. mid - 1 + 1 = mid /\ \A i \in 1 .. mid : 1 + i - 1 = i
      BY <1>2
    <2> QED
      BY <1>2, <2>1, <2>2
  <1>4. /\ right \in Seq(Int) /\ Len(right) = Len(s) - mid
        /\ \A i \in 1 .. Len(s) - mid : right[i] = s[mid + i]
    <2>1. /\ right \in Seq(Int)
          /\ Len(right) = IF mid + 1 <= Len(s) THEN Len(s) - (mid + 1) + 1 ELSE 0
          /\ \A i \in 1 .. Len(s) - (mid + 1) + 1 : right[i] = s[(mid + 1) + i - 1]
      BY <1>1, <1>2, SubSeqProperties
    <2> HIDE DEF right
    <2>2. /\ Len(s) - (mid + 1) + 1 = Len(s) - mid /\ mid + 1 <= Len(s)
          /\ \A i \in 1 .. Len(s) - mid : (mid + 1) + i - 1 = mid + i
      BY <1>1, <1>2
    <2> QED
      BY <2>1, <2>2
  <1> HIDE DEF left, right
  <1>5. left[1] = s[1] /\ IsRun(left)
    <2>1. \A i \in 1 .. mid : left[i] = s[1] + i - 1
      <3> TAKE i \in 1 .. mid
      <3>1. i \in 1 .. Len(s)
        BY <1>1, <1>2
      <3>2. left[i] = s[i]
        BY <1>3
      <3> QED
        BY <3>1, <3>2 DEF IsRun
    <2>2. left[1] = s[1]
      BY <1>2, <1>3
    <2> QED
      BY <1>2, <1>3, <2>1, <2>2 DEF IsRun
  <1>6. right[1] = s[1] + mid /\ IsRun(right)
    <2>1. \A i \in 1 .. Len(s) - mid : right[i] = s[1] + (mid + i) - 1
      BY <1>1, <1>2, <1>4
    <2>2. right[1] = s[1] + mid
      BY <1>1, <1>2, <2>1
    <2> QED
      BY <1>1, <1>2, <1>4, <2>1, <2>2 DEF IsRun
  <1>7. Hi(left) = s[1] + mid - 1 /\ Hi(right) = Hi(s)
    BY <1>1, <1>2, <1>3, <1>4, <1>5, <1>6 DEF Hi
  <1>8. right[1] = Hi(left) + 1
    BY <1>1, <1>2, <1>6, <1>7
  <1> QED
    BY <1>5, <1>6, <1>7, <1>8 DEF left, right, mid

(* A chain has no more runs than it has rows.                              *)
LEMMA ChainBound ==
  ASSUME NEW P \in Seq(Seq(Int)), NEW next \in Int, NEW last \in Int, Chain(P, next, last)
  PROVE  next + Len(P) <= last + 1
  <1>1. Len(P) \in Nat
    OBVIOUS
  <1>2. CASE Len(P) = 0
    BY <1>2 DEF Chain
  <1>3. CASE Len(P) # 0
    <2>1. Len(P) \in 1 .. Len(P)
      BY <1>1, <1>3
    <2>2. IsRun(P[Len(P)]) /\ Hi(P[Len(P)]) + Len(P) - 1 <= last /\ P[Len(P)][1] = next
      BY <1>3, <2>1 DEF Chain
    <2>3. next <= Hi(P[Len(P)]) /\ Hi(P[Len(P)]) \in Int
      BY <2>2, RunFacts
    <2> QED
      BY <1>1, <2>2, <2>3
  <1> QED
    BY <1>2, <1>3

LEMMA EmptyChain ==
  ASSUME NEW last \in Int
  PROVE  Chain(<<>>, last + 1, last)
  BY DEF Chain

LEMMA AppendChain ==
  ASSUME NEW P \in Seq(Seq(Int)), NEW next \in Int, NEW last \in Int, Chain(P, next, last),
         NEW c \in Seq(Int), IsRun(c), Hi(c) + 1 = next
  PROVE  Append(P, c) \in Seq(Seq(Int)) /\ Chain(Append(P, c), c[1], last)
  <1> DEFINE Q == Append(P, c)
  <1>1. /\ Len(P) \in Nat /\ Q \in Seq(Seq(Int)) /\ Len(Q) = Len(P) + 1
        /\ Q[Len(P) + 1] = c
        /\ \A i \in 1 .. Len(P) : Q[i] = P[i]
    OBVIOUS
  <1> HIDE DEF Q
  <1>2. next + Len(P) <= last + 1 /\ Hi(c) \in Int
    BY ChainBound, RunFacts
  <1>3. ASSUME NEW i \in 1 .. Len(Q) PROVE IsRun(Q[i]) /\ Hi(Q[i]) + i - 1 <= last
    <2>1. CASE i = Len(P) + 1
      BY <1>1, <1>2, <2>1
    <2>2. CASE i \in 1 .. Len(P)
      BY <1>1, <2>2 DEF Chain
    <2> QED
      BY <1>1, <2>1, <2>2
  <1>4. ASSUME NEW i \in 1 .. Len(Q) - 1 PROVE Q[i][1] = Hi(Q[i + 1]) + 1
    <2>1. CASE i = Len(P)
      BY <1>1, <2>1 DEF Chain
    <2>2. CASE i \in 1 .. Len(P) - 1
      <3>1. i \in 1 .. Len(P) /\ i + 1 \in 1 .. Len(P)
        BY <1>1, <2>2
      <3> QED
        BY <1>1, <2>2, <3>1 DEF Chain
    <2> QED
      BY <1>1, <2>1, <2>2
  <1>5. Q[Len(Q)][1] = c[1] /\ Len(Q) # 0
    BY <1>1
  <1>6. Hi(Q[1]) = last
    <2>1. CASE Len(P) = 0
      <3>1. Q[1] = c
        BY <1>1, <2>1
      <3>2. next = last + 1
        BY <2>1 DEF Chain
      <3> QED
        BY <1>2, <3>1, <3>2
    <2>2. CASE Len(P) # 0
      <3>1. 1 \in 1 .. Len(P)
        BY <1>1, <2>2
      <3> QED
        BY <1>1, <2>2, <3>1 DEF Chain
    <2> QED
      BY <2>1, <2>2
  <1>7. Chain(Q, c[1], last)
    BY <1>3, <1>4, <1>5, <1>6 DEF Chain
  <1> QED
    BY <1>1, <1>7 DEF Q

LEMMA PopChain ==
  ASSUME NEW P \in Seq(Seq(Int)), NEW next \in Int, NEW last \in Int,
         NEW c \in Seq(Int), Chain(Append(P, c), next, last)
  PROVE  /\ IsRun(c) /\ c[1] = next /\ Hi(c) <= last
         /\ Chain(P, next + Len(c), last)
  <1> DEFINE Q == Append(P, c)
  <1>1. /\ Len(P) \in Nat /\ Len(Q) = Len(P) + 1
        /\ Q[Len(P) + 1] = c
        /\ \A i \in 1 .. Len(P) : Q[i] = P[i]
    OBVIOUS
  <1>2. Chain(Q, next, last)
    OBVIOUS
  <1> HIDE DEF Q
  <1>3. IsRun(c) /\ c[1] = next /\ Hi(c) + (Len(P) + 1) - 1 <= last
    BY <1>1, <1>2 DEF Chain
  <1>4. Hi(c) \in Int /\ Len(c) \in Nat /\ Hi(c) <= last
    BY <1>1, <1>3, RunFacts
  <1>5. Hi(c) + 1 = next + Len(c)
    BY <1>3, <1>4 DEF Hi
  <1>6. \A i \in 1 .. Len(P) : IsRun(P[i]) /\ Hi(P[i]) + i - 1 <= last
    BY <1>1, <1>2 DEF Chain
  <1>7. ASSUME NEW i \in 1 .. Len(P) - 1 PROVE P[i][1] = Hi(P[i + 1]) + 1
    <2>1. i \in 1 .. Len(P) /\ i + 1 \in 1 .. Len(P) /\ i \in 1 .. Len(Q) - 1
      BY <1>1
    <2> QED
      BY <1>1, <1>2, <2>1 DEF Chain
  <1>8. CASE Len(P) = 0
    <2>1. Hi(c) = last
      BY <1>1, <1>2, <1>8 DEF Chain
    <2> QED
      BY <1>3, <1>4, <1>5, <1>6, <1>7, <1>8, <2>1 DEF Chain
  <1>9. CASE Len(P) # 0
    <2>1. Len(P) \in 1 .. Len(Q) - 1 /\ Len(P) \in 1 .. Len(P) /\ 1 \in 1 .. Len(P)
      BY <1>1, <1>9
    <2>2. P[Len(P)][1] = Hi(c) + 1
      BY <1>1, <1>2, <2>1 DEF Chain
    <2>3. Hi(P[1]) = last
      BY <1>1, <1>2, <2>1 DEF Chain
    <2> QED
      BY <1>3, <1>4, <1>5, <1>6, <1>7, <1>9, <2>2, <2>3 DEF Chain
  <1> QED
    BY <1>8, <1>9

LEMMA FrontLast ==
  ASSUME NEW S, NEW s \in Seq(S), s # <<>>
  PROVE  /\ Front(s) \in Seq(S) /\ Last(s) \in S
         /\ Len(s) \in Nat /\ Len(Front(s)) = Len(s) - 1
         /\ Append(Front(s), Last(s)) = s
  <1>1. Len(s) \in Nat \ {0} /\ \A i \in 1 .. Len(s) : s[i] \in S
    OBVIOUS
  <1>2. Last(s) \in S
    BY <1>1 DEF Last
  <1>3. /\ Front(s) \in Seq(S)
        /\ Len(Front(s)) = IF 1 <= Len(s) - 1 THEN Len(s) - 1 - 1 + 1 ELSE 0
        /\ \A i \in 1 .. Len(s) - 1 - 1 + 1 : Front(s)[i] = s[1 + i - 1]
    BY <1>1, SubSeqProperties DEF Front
  <1>4. Len(Front(s)) = Len(s) - 1 /\ \A i \in 1 .. Len(s) - 1 : Front(s)[i] = s[i]
    <2>1. \A k \in Nat \ {0} : (IF 1 <= k - 1 THEN k - 1 - 1 + 1 ELSE 0) = k - 1
      OBVIOUS
    <2>2. \A i \in 1 .. Len(s) - 1 : 1 + i - 1 = i
      BY <1>1
    <2>3. Len(Front(s)) = Len(s) - 1
      BY <1>1, <1>3, <2>1
    <2>4. Len(s) - 1 - 1 + 1 = Len(s) - 1
      BY <1>1
    <2>5. ASSUME NEW i \in 1 .. Len(s) - 1 PROVE Front(s)[i] = s[i]
      BY <1>3, <2>2, <2>4
    <2> QED
      BY <2>3, <2>5
  <1> DEFINE a == Append(Front(s), Last(s))
  <1>5. a \in Seq(S) /\ Len(a) = Len(s)
    BY <1>1, <1>2, <1>3, <1>4
  <1>6. ASSUME NEW i \in 1 .. Len(s) PROVE a[i] = s[i]
    <2>1. CASE i = Len(s)
      BY <1>1, <1>2, <1>3, <1>4, <2>1 DEF Last
    <2>2. CASE i \in 1 .. Len(s) - 1
      BY <1>1, <1>2, <1>3, <1>4, <2>2
    <2>3. i = Len(s) \/ i \in 1 .. Len(s) - 1
      BY <1>1
    <2> QED
      BY <2>1, <2>2, <2>3
  <1>7. a = s
    BY <1>5, <1>6, SeqEqual
  <1> QED
    BY <1>1, <1>2, <1>3, <1>4, <1>7

(* Rows are whole, so a request over the budget is one row.                *)
LEMMA RowsPerBatch ==
  ASSUME NEW b \in Nat, NEW c \in Nat
  PROVE  /\ rows_per_batch(b, c) \in Nat \ {0}
         /\ \A k \in Nat : k <= rows_per_batch(b, c) => k * c <= b \/ k <= 1
  <1> DEFINE per_row == IF c = 0 THEN 1 ELSE c
             q == b \div per_row
  <1>1. per_row \in Nat /\ per_row >= 1 /\ c <= per_row
    OBVIOUS
  <1> HIDE DEF per_row
  <1>2. q \in Nat /\ q * per_row <= b
    BY <1>1
  <1>3. rows_per_batch(b, c) = IF q = 0 THEN 1 ELSE q
    BY DEF rows_per_batch, per_row
  <1> HIDE DEF q
  <1>4. ASSUME NEW k \in Nat, k <= q PROVE k * c <= b
    <2>1. k * c <= k * per_row
      BY <1>1
    <2>2. k * per_row <= q * per_row
      BY <1>1, <1>2, <1>4
    <2>3. k * c \in Nat /\ k * per_row \in Nat /\ q * per_row \in Nat
      BY <1>1, <1>2
    <2> QED
      BY <1>2, <2>1, <2>2, <2>3
  <1> QED
    BY <1>2, <1>3, <1>4

-----------------------------------------------------------------------------
LEMMA NextCases ==
  ASSUME [Next]_vars
  PROVE  \/ Send \/ Return \/ Answered \/ MayShrink \/ Unshrinkable \/ ExtractOk \/ ExtractErr
         \/ UNCHANGED vars
  BY DEF Next, Step, Stop

LEMMA InitBatch ==
  ASSUME Init
  PROVE  /\ IsRun(batch) /\ batch \in Seq(Int)
         /\ deployed => Len(batch) <= rows_per_batch(budget, calls)
         /\ ~deployed => Len(batch) = 1
  <1> DEFINE size == rows_per_batch(budget, calls)
  <1>1. budget \in Nat /\ calls \in Nat
    BY MulticallAssumption DEF Init
  <1>2. PICK n \in 1 .. MaxRows :
          batch \in IF deployed THEN Batches(n, size) ELSE {<<i>> : i \in 1 .. n}
    BY DEF Init
  <1>3. n \in Nat
    BY MulticallAssumption
  <1>4. CASE deployed
    <2>1. size \in Nat \ {0}
      BY <1>1, RowsPerBatch
    <2> HIDE DEF size
    <2>2. batch \in {Run(lo, IF lo + size - 1 <= n THEN lo + size - 1 ELSE n) :
                       lo \in {l \in 1 .. n : (l - 1) % size = 0}}
      BY <1>2, <1>4 DEF Batches
    <2>3. PICK lo \in 1 .. n : batch = Run(lo, IF lo + size - 1 <= n THEN lo + size - 1 ELSE n)
      BY <2>2
    <2> DEFINE hi == IF lo + size - 1 <= n THEN lo + size - 1 ELSE n
    <2>4. lo \in Int /\ hi \in Int /\ lo <= hi /\ hi - lo + 1 <= size
      BY <1>3, <2>1
    <2> HIDE DEF hi
    <2>5. batch = Run(lo, hi)
      BY <2>3 DEF hi
    <2>6. IsRun(batch) /\ Len(batch) <= size
      BY <2>4, <2>5, RunOf
    <2> QED
      BY <1>4, <2>6 DEF IsRun, size
  <1>5. CASE ~deployed
    <2>1. PICK i \in 1 .. n : batch = <<i>>
      BY <1>2, <1>5
    <2>2. batch \in Seq(Int) /\ Len(batch) = 1 /\ batch[1] = i /\ i \in Int
      BY <1>3, <2>1
    <2> QED
      BY <1>5, <2>2 DEF IsRun
  <1> QED
    BY <1>4, <1>5 DEF Init

LEMMA InitIInv == Init => IInv
  <1> SUFFICES ASSUME Init PROVE IInv
    OBVIOUS
  <1>1. TypeOK
    BY InitBatch, MulticallAssumption DEF Init, TypeOK
  <1>2. IsRun(batch) /\ Len(batch) \in Nat /\ Len(batch) >= 1 /\ Hi(batch) \in Int
    BY InitBatch, RunFacts
  <1>3. OutInv
    BY <1>2 DEF Init, OutInv
  <1>4. LadderInv
    <2>1. Chain(<<>>, Hi(batch) + 1, Hi(batch))
      BY <1>2, EmptyChain
    <2>2. Chain(Append(<<>>, batch), batch[1], Hi(batch))
      <3>1. <<>> \in Seq(Seq(Int)) /\ Hi(batch) + 1 \in Int
        BY <1>2
      <3> QED
        BY <1>2, <2>1, <3>1, InitBatch, AppendChain
    <2>3. Append(<<>>, batch) = <<batch>>
      OBVIOUS
    <2>4. deployed => Pending = <<batch>>
      BY DEF Init, Pending, Holding
    <2>5. batch[1] + Len(out) = batch[1]
      BY <1>2, RunFacts DEF Init
    <2>6. deployed => Chain(Pending, batch[1] + Len(out), Hi(batch))
      BY <2>2, <2>3, <2>4, <2>5
    <2> QED
      BY <2>6, InitBatch DEF Init, LadderInv
  <1>5. CountInv
    <2>1. deployed => Pending = <<batch>> /\ ~Holding
      BY DEF Init, Pending, Holding
    <2>2. Len(<<batch>>) = 1 /\ Len(out) = 0
      BY DEF Init
    <2>3. deployed => Len(batch) <= rows_per_batch(budget, calls)
      BY InitBatch
    <2>4. sent = 0 /\ pc # "err"
      BY DEF Init
    <2>5. deployed => sent <= 2 * Len(out) + Len(Pending) - IF Holding THEN 0 ELSE 1
      <3> SUFFICES ASSUME deployed
                   PROVE  0 <= 2 * Len(out) + Len(Pending) - IF Holding THEN 0 ELSE 1
        BY <2>4
      <3>1. ~Holding /\ Len(out) = 0 /\ Len(Pending) = 1
        BY <2>1, <2>2
      <3> QED
        BY <3>1
    <2> QED
      BY <2>3, <2>4, <2>5 DEF CountInv
  <1> QED
    BY <1>1, <1>3, <1>4, <1>5 DEF IInv

(* What the invariant says while a run is in the task's hands.             *)
LEMMA HeldFacts ==
  ASSUME IInv, deployed, Holding
  PROVE  /\ IsRun(current) /\ current[1] = batch[1] + Len(out) /\ Hi(current) <= Hi(batch)
         /\ Chain(stack, batch[1] + Len(out) + Len(current), Hi(batch))
         /\ Len(stack) \in Nat /\ Len(out) \in Nat /\ Len(batch) \in Nat
         /\ Len(current) \in Nat /\ Len(current) >= 1
         /\ Len(out) + Len(current) <= Len(batch)
         /\ Len(out) + Len(stack) + 1 <= Len(batch)
         /\ sent <= 2 * Len(out) + Len(stack) + 1
  <1>1. /\ TypeOK /\ Len(stack) \in Nat /\ Len(out) \in Nat
        /\ stack \in Seq(Seq(Int)) /\ current \in Seq(Int)
    BY DEF IInv, TypeOK
  <1>2. batch[1] \in Int /\ Len(batch) \in Nat /\ Hi(batch) \in Int
    BY <1>1, RunFacts DEF TypeOK
  <1>3. /\ Pending = Append(stack, current) /\ Len(Pending) = Len(stack) + 1
        /\ Pending \in Seq(Seq(Int))
    BY <1>1 DEF Pending
  <1>4. Chain(Pending, batch[1] + Len(out), Hi(batch))
    BY DEF IInv, LadderInv, Holding
  <1>5. /\ IsRun(current) /\ current[1] = batch[1] + Len(out) /\ Hi(current) <= Hi(batch)
        /\ Chain(stack, batch[1] + Len(out) + Len(current), Hi(batch))
    <2>1. batch[1] + Len(out) \in Int
      BY <1>1, <1>2
    <2>2. Chain(Append(stack, current), batch[1] + Len(out), Hi(batch))
      BY <1>3, <1>4
    <2> QED
      BY <1>1, <1>2, <2>1, <2>2, PopChain
  <1>6. Len(current) \in Nat /\ Len(current) >= 1
    BY <1>5, RunFacts
  <1>7. batch[1] + Len(out) + Len(Pending) <= Hi(batch) + 1
    <2>1. batch[1] + Len(out) \in Int
      BY <1>1, <1>2
    <2> QED
      BY <1>2, <1>3, <1>4, <2>1, ChainBound
  <1>8. Len(out) + Len(stack) + 1 <= Len(batch)
    BY <1>1, <1>2, <1>3, <1>7 DEF Hi
  <1>9. Len(out) + Len(current) <= Len(batch)
    <2>1. Hi(current) = current[1] + Len(current) - 1 /\ Hi(batch) = batch[1] + Len(batch) - 1
      BY DEF Hi
    <2>2. current[1] + Len(current) - 1 <= batch[1] + Len(batch) - 1 /\ current[1] = batch[1] + Len(out)
      BY <1>5, <2>1
    <2>3. \A a, b \in Int : \A i, j, k \in Nat :
            b = a + i /\ b + j - 1 <= a + k - 1 => i + j <= k
      OBVIOUS
    <2>4. current[1] \in Int
      BY <1>1, <1>2, <2>2
    <2> QED
      BY <1>1, <1>2, <1>6, <2>2, <2>3, <2>4
  <1>10. sent <= 2 * Len(out) + Len(stack) + 1
    <2>1. pc # "err"
      BY DEF Holding
    <2>2. sent <= 2 * Len(out) + Len(Pending) - 0
      BY <2>1 DEF IInv, CountInv
    <2>3. sent \in Nat
      BY <1>1 DEF TypeOK
    <2> QED
      BY <1>1, <1>3, <2>2, <2>3
  <1> QED
    BY <1>1, <1>2, <1>5, <1>6, <1>8, <1>9, <1>10

(* Answering a run that follows the rows already out keeps their order.    *)
LEMMA Emits ==
  ASSUME TypeOK, OutInv, UNCHANGED input,
         NEW c, IsRun(c), c[1] = batch[1] + Len(out), Len(out) + Len(c) <= Len(batch),
         require_success /\ deployed => \A j \in 1 .. Len(c) : c[j] \notin reverts,
         Len(out') = Len(out) + Len(c),
         \A j \in 1 .. Len(out) : out'[j] = out[j],
         \A j \in 1 .. Len(c) : out'[Len(out) + j] = Answer(c[j])
  PROVE  OutInv'
  <1>1. /\ Len(out) \in Nat /\ Len(c) \in Nat /\ batch[1] \in Int /\ Len(batch) \in Nat
        /\ \A j \in 1 .. Len(c) : c[j] = c[1] + j - 1
        /\ \A j \in 1 .. Len(batch) : batch[j] = batch[1] + j - 1
    <2>1. /\ IsRun(batch) /\ out \in Seq(AnswerSet)
          /\ batch[1] \in Int /\ Len(batch) \in Nat /\ Len(c) \in Nat
      BY RunFacts DEF TypeOK
    <2>2. Len(out) \in Nat
      BY <2>1
    <2> QED
      BY <2>1, <2>2 DEF IsRun
  <1>2. /\ batch' = batch /\ reverts' = reverts /\ \A r : Answer(r)' = Answer(r)
        /\ require_success' = require_success /\ deployed' = deployed
    BY DEF input, Answer
  <1>3. ASSUME NEW k \in 1 .. Len(out')
        PROVE  /\ out'[k] = Answer(batch[k])
               /\ require_success /\ deployed => batch[k] \notin reverts
    <2>1. CASE k \in 1 .. Len(out)
      BY <2>1 DEF OutInv
    <2>2. CASE k \notin 1 .. Len(out)
      <3> DEFINE j == k - Len(out)
      <3>1. j \in 1 .. Len(c) /\ Len(out) + j = k /\ k \in 1 .. Len(batch)
        BY <1>1, <2>2
      <3> HIDE DEF j
      <3>2. c[j] = batch[1] + Len(out) + j - 1 /\ batch[k] = batch[1] + k - 1
        BY <1>1, <3>1
      <3>3. c[j] = batch[k]
        BY <1>1, <3>1, <3>2
      <3> QED
        BY <3>1, <3>3
    <2> QED
      BY <2>1, <2>2
  <1> QED
    BY <1>2, <1>3 DEF OutInv

LEMMA SendStep ==
  ASSUME IInv, Send
  PROVE  IInv'
  <1>1. /\ TypeOK /\ stack \in Seq(Seq(Int)) /\ sent \in Nat /\ Len(out) \in Nat
    BY DEF IInv, TypeOK
  <1>2. /\ stack' \in Seq(Seq(Int)) /\ current' \in Seq(Int)
        /\ Append(stack', current') = stack
    BY <1>1, FrontLast DEF Send
  <1>3. /\ require_success' = require_success /\ deployed' = deployed /\ calls' = calls
        /\ budget' = budget /\ reverts' = reverts /\ batch' = batch /\ out' = out
        /\ pc = "loop" /\ pc' = "await" /\ sent' = sent + 1
    BY DEF Send, input
  <1>4. TypeOK'
    BY <1>1, <1>2, <1>3 DEF TypeOK
  <1>5. OutInv'
    BY <1>3 DEF IInv, OutInv, Answer
  <1>6. Pending = stack /\ Pending' = Pending /\ ~Holding /\ Holding'
    BY <1>2, <1>3 DEF Pending, Holding
  <1>7. LadderInv'
    BY <1>3, <1>6 DEF IInv, LadderInv, Hi
  <1>8. CountInv'
    BY <1>1, <1>3, <1>6 DEF IInv, CountInv, LadderInv
  <1> QED
    BY <1>4, <1>5, <1>7, <1>8 DEF IInv

LEMMA ReturnStep ==
  ASSUME IInv, Return
  PROVE  IInv'
  <1>1. /\ TypeOK /\ IsRun(batch) /\ Len(out) \in Nat
    BY DEF IInv, TypeOK
  <1>2. /\ require_success' = require_success /\ deployed' = deployed /\ calls' = calls
        /\ budget' = budget /\ reverts' = reverts /\ batch' = batch /\ out' = out
        /\ stack' = stack /\ current' = current /\ stack = <<>> /\ sent' = sent
        /\ pc = "loop" /\ pc' = "ok"
    BY DEF Return, input
  <1>3. TypeOK' /\ OutInv'
    BY <1>1, <1>2 DEF IInv, TypeOK, OutInv, Answer
  <1>4. Pending = stack /\ Pending' = Pending /\ ~Holding /\ ~Holding'
    BY <1>2 DEF Pending, Holding
  <1>5. deployed
    BY <1>2 DEF IInv, LadderInv
  <1>6. batch[1] + Len(out) = Hi(batch) + 1
    BY <1>2, <1>4, <1>5 DEF IInv, LadderInv, Chain
  <1>7. Len(out) = Len(batch)
    BY <1>1, <1>6, RunFacts DEF Hi
  <1>8. LadderInv'
    BY <1>2, <1>4, <1>5, <1>7 DEF IInv, LadderInv, Hi
  <1>9. CountInv'
    BY <1>2, <1>4, <1>5 DEF IInv, CountInv
  <1> QED
    BY <1>3, <1>8, <1>9 DEF IInv

LEMMA AnsweredStep ==
  ASSUME IInv, Answered
  PROVE  IInv'
  <1>1. /\ TypeOK /\ OutInv /\ Len(out) \in Nat /\ sent \in Nat
        /\ out \in Seq(AnswerSet)
    BY DEF IInv, TypeOK
  <1>2. /\ require_success' = require_success /\ deployed' = deployed /\ calls' = calls
        /\ budget' = budget /\ reverts' = reverts /\ batch' = batch
        /\ stack' = stack /\ current' = current /\ sent' = sent
        /\ pc = "await" /\ pc' = "loop"
    BY DEF Answered, input
  <1>3. deployed /\ Holding /\ ~Holding'
    BY <1>2 DEF IInv, LadderInv, Holding
  <1>4. /\ IsRun(current) /\ current[1] = batch[1] + Len(out)
        /\ Chain(stack, batch[1] + Len(out) + Len(current), Hi(batch))
        /\ Len(stack) \in Nat /\ Len(current) \in Nat /\ Len(current) >= 1
        /\ Len(out) + Len(current) <= Len(batch)
        /\ sent <= 2 * Len(out) + Len(stack) + 1
    BY <1>3, HeldFacts
  <1> DEFINE answers == [i \in DOMAIN current |-> Answer(current[i])]
  <1>5. DOMAIN current = 1 .. Len(current) /\ \A i \in 1 .. Len(current) : current[i] \in Int
    BY <1>4 DEF IsRun
  <1>6. answers \in [1 .. Len(current) -> AnswerSet]
    BY <1>5 DEF Answer, AnswerSet
  <1>7. \A i \in 1 .. Len(current) : answers[i] = Answer(current[i])
    BY <1>5
  <1>8. out' = out \o answers
    BY DEF Answered
  <1> HIDE DEF answers
  <1>9. answers \in Seq(AnswerSet) /\ Len(answers) = Len(current)
    BY <1>4, <1>6
  <1>10. /\ out' \in Seq(AnswerSet)
         /\ Len(out') = Len(out) + Len(current)
         /\ \A j \in 1 .. Len(out) + Len(current) :
              out'[j] = IF j <= Len(out) THEN out[j] ELSE answers[j - Len(out)]
    <2>1. /\ out \o answers \in Seq(AnswerSet)
          /\ Len(out \o answers) = Len(out) + Len(answers)
          /\ \A j \in 1 .. Len(out) + Len(answers) :
               (out \o answers)[j] = IF j <= Len(out) THEN out[j] ELSE answers[j - Len(out)]
      BY <1>1, <1>9, ConcatProperties
    <2> QED
      BY <1>8, <1>9, <2>1, Zenon
  <1>11. \A j \in 1 .. Len(out) : out'[j] = out[j]
    BY <1>1, <1>4, <1>10
  <1>12. ASSUME NEW j \in 1 .. Len(current) PROVE out'[Len(out) + j] = Answer(current[j])
    <2>1. /\ Len(out) + j \in 1 .. Len(out) + Len(current)
          /\ ~(Len(out) + j <= Len(out)) /\ (Len(out) + j) - Len(out) = j
      BY <1>1, <1>4
    <2> QED
      BY <1>7, <1>10, <2>1
  <1>13. require_success => \A j \in 1 .. Len(current) : current[j] \notin reverts
    BY <1>5 DEF Answered, Aggregates
  <1>14. TypeOK'
    BY <1>1, <1>2, <1>10 DEF TypeOK
  <1>15. OutInv'
    BY <1>1, <1>2, <1>4, <1>10, <1>11, <1>12, <1>13, Emits DEF input
  <1>16. batch'[1] + Len(out') = batch[1] + Len(out) + Len(current)
    BY <1>1, <1>2, <1>4, <1>10, RunFacts DEF TypeOK
  <1>17. Pending' = stack
    BY <1>2, <1>3 DEF Pending
  <1>18. LadderInv'
    BY <1>2, <1>3, <1>4, <1>16, <1>17 DEF LadderInv, Hi
  <1>19. CountInv'
    BY <1>1, <1>2, <1>3, <1>4, <1>10, <1>17 DEF IInv, CountInv
  <1> QED
    BY <1>14, <1>15, <1>18, <1>19 DEF IInv

LEMMA HalveStep ==
  ASSUME IInv, pc = "await", Len(current) > 1, Halve, UNCHANGED <<input, sent>>
  PROVE  IInv'
  <1> DEFINE mid == Len(current) \div 2
             left == SubSeq(current, 1, mid)
             right == SubSeq(current, mid + 1, Len(current))
  <1>1. /\ TypeOK /\ Len(out) \in Nat /\ sent \in Nat /\ stack \in Seq(Seq(Int))
        /\ batch[1] \in Int /\ Hi(batch) \in Int
    BY RunFacts DEF IInv, TypeOK
  <1>2. /\ require_success' = require_success /\ deployed' = deployed /\ calls' = calls
        /\ budget' = budget /\ reverts' = reverts /\ batch' = batch
        /\ out' = out /\ current' = current /\ sent' = sent
        /\ pc' = "loop" /\ stack' = stack \o <<right, left>>
    BY DEF Halve, input
  <1>3. deployed /\ Holding /\ ~Holding'
    BY <1>2 DEF IInv, LadderInv, Holding
  <1>4. /\ IsRun(current) /\ current[1] = batch[1] + Len(out)
        /\ Chain(stack, batch[1] + Len(out) + Len(current), Hi(batch))
        /\ Len(stack) \in Nat /\ Len(current) \in Nat
        /\ sent <= 2 * Len(out) + Len(stack) + 1
    BY <1>3, HeldFacts
  <1>5. /\ IsRun(left) /\ IsRun(right)
        /\ left[1] = current[1] /\ right[1] = Hi(left) + 1 /\ Hi(right) = Hi(current)
    BY <1>4, HalvesOfRun
  <1> HIDE DEF left, right
  <1>6. left \in Seq(Int) /\ right \in Seq(Int) /\ right[1] \in Int
    BY <1>5, RunFacts DEF IsRun
  <1>7. Hi(right) + 1 = batch[1] + Len(out) + Len(current)
    <2>1. Hi(current) + 1 = current[1] + Len(current)
      BY <1>4, RunFacts DEF Hi
    <2> QED
      BY <1>1, <1>4, <1>5, <2>1
  <1>8. batch[1] + Len(out) + Len(current) \in Int
    BY <1>1, <1>4
  <1> DEFINE one == Append(stack, right)
             two == Append(one, left)
  <1>9. one \in Seq(Seq(Int)) /\ Chain(one, right[1], Hi(batch))
    BY <1>1, <1>4, <1>5, <1>6, <1>7, <1>8, AppendChain
  <1>10. Len(one) = Len(stack) + 1
    BY <1>1, <1>6
  <1> HIDE DEF one
  <1>11. two \in Seq(Seq(Int)) /\ Chain(two, left[1], Hi(batch))
    BY <1>1, <1>5, <1>6, <1>9, AppendChain
  <1>12. Len(two) = Len(stack) + 2
    BY <1>1, <1>6, <1>9, <1>10
  <1>13. stack' = two
    BY <1>1, <1>2, <1>6 DEF one
  <1> HIDE DEF two
  <1>14. TypeOK'
    BY <1>1, <1>2, <1>11, <1>13 DEF TypeOK
  <1>15. OutInv'
    BY <1>2 DEF IInv, OutInv, Answer
  <1>16. Pending' = two
    BY <1>3, <1>13 DEF Pending
  <1>17. LadderInv'
    BY <1>2, <1>3, <1>4, <1>5, <1>11, <1>16 DEF LadderInv, Hi
  <1>18. CountInv'
    BY <1>1, <1>2, <1>3, <1>4, <1>12, <1>16 DEF IInv, CountInv
  <1> QED
    BY <1>14, <1>15, <1>17, <1>18 DEF IInv

(* A refusal that ends the task, or hands a single row to extract.         *)
LEMMA RefusedStep ==
  ASSUME IInv, pc = "await", UNCHANGED <<input, sent, stack, current, out>>,
         \/ pc' = "err"
         \/ pc' = "extract" /\ Len(current) = 1 /\ ~require_success
  PROVE  IInv'
  <1>1. /\ require_success' = require_success /\ deployed' = deployed /\ calls' = calls
        /\ budget' = budget /\ reverts' = reverts /\ batch' = batch
        /\ out' = out /\ current' = current /\ sent' = sent /\ stack' = stack
    BY DEF input
  <1>2. deployed /\ Holding
    BY DEF IInv, LadderInv, Holding
  <1>3. /\ Len(stack) \in Nat /\ Len(out) \in Nat /\ Len(batch) \in Nat
        /\ Len(out) + Len(stack) + 1 <= Len(batch)
        /\ sent <= 2 * Len(out) + Len(stack) + 1 /\ sent \in Nat
    BY <1>2, HeldFacts DEF IInv, TypeOK
  <1>4. sent <= 2 * Len(batch) - 1
    BY <1>3
  <1>5. TypeOK' /\ OutInv'
    BY <1>1 DEF IInv, TypeOK, OutInv, Answer
  <1>6. pc' = "extract" => Holding' /\ Pending' = Pending
    BY <1>1, <1>2 DEF Pending, Holding
  <1>7. LadderInv'
    BY <1>1, <1>2, <1>6 DEF IInv, LadderInv, Hi
  <1>8. CountInv'
    BY <1>1, <1>2, <1>4, <1>6 DEF IInv, CountInv
  <1> QED
    BY <1>5, <1>7, <1>8 DEF IInv

LEMMA ExtractOkStep ==
  ASSUME IInv, ExtractOk
  PROVE  IInv'
  <1>1. /\ TypeOK /\ OutInv /\ sent \in Nat /\ out \in Seq(AnswerSet)
        /\ Len(out) \in Nat /\ IsRun(batch) /\ batch[1] \in Int /\ Len(batch) \in Nat
    BY RunFacts DEF IInv, TypeOK
  <1>2. /\ require_success' = require_success /\ deployed' = deployed /\ calls' = calls
        /\ budget' = budget /\ reverts' = reverts /\ batch' = batch
        /\ stack' = stack /\ current' = current /\ sent' = sent
        /\ pc = "extract" /\ pc' = IF deployed THEN "loop" ELSE "ok"
        /\ out' = Append(out, Answer(TheRow))
    BY DEF ExtractOk, input
  <1> DEFINE c == IF deployed THEN current ELSE batch
  <1>3. /\ IsRun(c) /\ Len(c) = 1 /\ c[1] = batch[1] + Len(out)
        /\ Len(out) + Len(c) <= Len(batch) /\ TheRow = c[1]
        /\ ~(require_success /\ deployed)
    <2>1. CASE deployed
      <3>1. Holding /\ Len(current) = 1 /\ ~require_success
        BY <1>2, <2>1 DEF IInv, LadderInv, Holding
      <3>2. c = current /\ TheRow = current[1]
        BY <2>1 DEF TheRow
      <3>3. /\ IsRun(current) /\ current[1] = batch[1] + Len(out)
            /\ Len(out) + Len(current) <= Len(batch)
        BY <2>1, <3>1, HeldFacts
      <3> HIDE DEF c
      <3>4. /\ IsRun(c) /\ Len(c) = 1 /\ c[1] = batch[1] + Len(out)
            /\ Len(out) + Len(c) <= Len(batch) /\ TheRow = c[1]
        BY <3>1, <3>2, <3>3, Zenon
      <3> QED
        BY <3>1, <3>4
    <2>2. CASE ~deployed
      <3>1. out = <<>> /\ Len(out) = 0 /\ Len(batch) = 1
        BY <1>2, <2>2 DEF IInv, LadderInv
      <3>2. c = batch /\ TheRow = batch[1]
        BY <2>2 DEF TheRow
      <3>3. batch[1] = batch[1] + Len(out) /\ Len(out) + Len(batch) <= Len(batch)
        BY <1>1, <3>1
      <3> HIDE DEF c
      <3>4. /\ IsRun(c) /\ Len(c) = 1 /\ c[1] = batch[1] + Len(out)
            /\ Len(out) + Len(c) <= Len(batch) /\ TheRow = c[1]
        BY <1>1, <3>1, <3>2, <3>3, Zenon
      <3> QED
        BY <2>2, <3>4
    <2> QED
      BY <2>1, <2>2
  <1> HIDE DEF c
  <1>4. TheRow \in Int
    BY <1>3, RunFacts
  <1>5. Answer(TheRow) \in AnswerSet
    BY <1>4 DEF Answer, AnswerSet
  <1>6. /\ out' \in Seq(AnswerSet) /\ Len(out') = Len(out) + 1
        /\ \A j \in 1 .. Len(out) : out'[j] = out[j]
        /\ out'[Len(out) + 1] = Answer(c[1])
    BY <1>1, <1>2, <1>3, <1>5
  <1>7. \A j \in 1 .. Len(c) : out'[Len(out) + j] = Answer(c[j])
    BY <1>3, <1>6
  <1>8. OutInv'
    BY <1>1, <1>2, <1>3, <1>6, <1>7, Emits DEF input
  <1>9. TypeOK'
    BY <1>1, <1>2, <1>6 DEF TypeOK
  <1>10. CASE deployed
    <2>1. Holding /\ ~Holding' /\ Pending' = stack
      BY <1>2, <1>10 DEF Holding, Pending
    <2>2. /\ Chain(stack, batch[1] + Len(out) + Len(current), Hi(batch))
          /\ Len(stack) \in Nat /\ sent <= 2 * Len(out) + Len(stack) + 1 /\ Len(current) = 1
      BY <1>3, <1>10, <2>1, HeldFacts DEF c
    <2>3. batch[1] + Len(out') = batch[1] + Len(out) + Len(current)
      <3>1. Len(out') = Len(out) + 1 /\ Len(current) = 1
        BY <1>6, <2>2
      <3>2. batch[1] + (Len(out) + 1) = batch[1] + Len(out) + 1
        BY <1>1
      <3> QED
        BY <3>1, <3>2
    <2>4. LadderInv'
      BY <1>2, <1>10, <2>1, <2>2, <2>3 DEF LadderInv, Hi
    <2>5. CountInv'
      BY <1>1, <1>2, <1>6, <1>10, <2>1, <2>2 DEF IInv, CountInv
    <2> QED
      BY <1>8, <1>9, <2>4, <2>5 DEF IInv
  <1>11. CASE ~deployed
    <2>1. Len(batch) = 1 /\ Len(out) = 0
      BY <1>2, <1>11 DEF IInv, LadderInv
    <2>2. Len(out') = Len(batch)
      BY <1>6, <2>1
    <2>3. LadderInv' /\ CountInv'
      BY <1>2, <1>11, <2>1, <2>2 DEF IInv, LadderInv, CountInv
    <2> QED
      BY <1>8, <1>9, <2>3 DEF IInv
  <1> QED
    BY <1>10, <1>11

LEMMA ExtractErrStep ==
  ASSUME IInv, ExtractErr
  PROVE  IInv'
  <1>1. /\ require_success' = require_success /\ deployed' = deployed /\ calls' = calls
        /\ budget' = budget /\ reverts' = reverts /\ batch' = batch
        /\ out' = out /\ current' = current /\ sent' = sent /\ stack' = stack
        /\ pc = "extract" /\ pc' = "err"
    BY DEF ExtractErr, input
  <1>2. TypeOK' /\ OutInv'
    BY <1>1 DEF IInv, TypeOK, OutInv, Answer
  <1>3. LadderInv'
    BY <1>1 DEF IInv, LadderInv
  <1>4. ASSUME deployed PROVE sent <= 2 * Len(batch) - 1
    <2>1. Holding
      BY <1>1 DEF Holding
    <2>2. /\ Len(stack) \in Nat /\ Len(out) \in Nat /\ Len(batch) \in Nat
          /\ Len(out) + Len(stack) + 1 <= Len(batch)
          /\ sent <= 2 * Len(out) + Len(stack) + 1 /\ sent \in Nat
      BY <1>4, <2>1, HeldFacts DEF IInv, TypeOK
    <2> QED
      BY <2>2
  <1>5. CountInv'
    BY <1>1, <1>4 DEF IInv, CountInv
  <1> QED
    BY <1>2, <1>3, <1>5 DEF IInv

(***************************************************************************)
(* The ladder's invariant: what is out is a prefix of the batch, what is   *)
(* pending is the rest of it, cut into runs in order, and the requests so  *)
(* far are paid for by rows answered and runs pending.                     *)
(***************************************************************************)
THEOREM MulticallInvariant == Spec => []IInv
  <1>1. ASSUME IInv, [Next]_vars PROVE IInv'
    <2>1. ASSUME MayShrink PROVE IInv'
      <3>1. CASE Len(current) > 1 /\ Halve
        BY <1>1, <2>1, <3>1, HalveStep DEF MayShrink
      <3>2. CASE ~(Len(current) > 1 /\ Halve)
        BY <1>1, <2>1, <3>2, RefusedStep DEF MayShrink, Refused
      <3> QED
        BY <3>1, <3>2
    <2>2. ASSUME Unshrinkable PROVE IInv'
      BY <1>1, <2>2, RefusedStep DEF Unshrinkable, Refused
    <2>3. ASSUME UNCHANGED vars PROVE IInv'
      BY <1>1, <2>3
         DEF vars, IInv, TypeOK, OutInv, LadderInv, CountInv, Pending, Holding, Hi, Answer
    <2> QED
      BY <1>1, <2>1, <2>2, <2>3, NextCases, SendStep, ReturnStep, AnsweredStep, ExtractOkStep,
         ExtractErrStep
  <1> QED
    BY InitIInv, <1>1, PTL DEF Spec

(***************************************************************************)
(* multicall_batch_with_fallback returns its rows in the order they went   *)
(* in, none lost and none repeated, whatever was halved or demoted.        *)
(***************************************************************************)
THEOREM RowsTheorem == Spec => []RowsInOrder
  <1>1. ASSUME IInv PROVE RowsInOrder
    <2> DEFINE names == [i \in DOMAIN out |-> out[i].row]
    <2>1. /\ out \in Seq(AnswerSet) /\ Len(out) \in Nat /\ DOMAIN out = 1 .. Len(out)
          /\ IsRun(batch) /\ batch \in Seq(Int) /\ Len(batch) \in Nat
          /\ Len(out) <= Len(batch)
      BY <1>1, RunFacts DEF IInv, TypeOK, OutInv, IsRun
    <2>2. \A i \in 1 .. Len(out) : out[i].row = batch[i] /\ batch[i] \in Int
      BY <1>1, <2>1 DEF IInv, OutInv, Answer
    <2>3. names \in [1 .. Len(out) -> Int] /\ \A i \in 1 .. Len(out) : names[i] = batch[i]
      BY <2>1, <2>2
    <2> HIDE DEF names
    <2>4. names \in Seq(Int) /\ Len(names) = Len(out)
      BY <2>1, <2>3
    <2>5. SubSeq(names, 1, Len(out)) = SubSeq(batch, 1, Len(out))
      <3> DEFINE a == SubSeq(names, 1, Len(out))
                 b == SubSeq(batch, 1, Len(out))
      <3>1. /\ a \in Seq(Int) /\ Len(a) = IF 1 <= Len(out) THEN Len(out) - 1 + 1 ELSE 0
            /\ \A i \in 1 .. Len(out) - 1 + 1 : a[i] = names[1 + i - 1]
        BY <2>1, <2>3, SubSeqProperties
      <3>2. /\ b \in Seq(Int) /\ Len(b) = IF 1 <= Len(out) THEN Len(out) - 1 + 1 ELSE 0
            /\ \A i \in 1 .. Len(out) - 1 + 1 : b[i] = batch[1 + i - 1]
        BY <2>1, <2>2, SubSeqProperties
      <3> HIDE DEF a, b
      <3>3. Len(out) - 1 + 1 = Len(out) /\ \A i \in 1 .. Len(out) : 1 + i - 1 = i
        BY <2>1
      <3>4. Len(a) = Len(b) /\ \A i \in 1 .. Len(a) : a[i] = b[i]
        BY <2>1, <2>3, <3>1, <3>2, <3>3
      <3>5. a = b
        BY <3>1, <3>2, <3>4, SeqEqual
      <3> QED
        BY <3>5 DEF a, b
    <2>6. pc = "ok" => Len(out) = Len(batch)
      BY <1>1 DEF IInv, LadderInv
    <2>7. IsPrefix(names, batch)
      BY <2>1, <2>4, <2>5 DEF IsPrefix
    <2> QED
      BY <2>6, <2>7 DEF RowsInOrder, names
  <1> QED
    BY MulticallInvariant, <1>1, PTL

(***************************************************************************)
(* A null in the output of a batch is a refusal of the contract, and with  *)
(* --multicall-require-success there is none.                              *)
(***************************************************************************)
THEOREM NullsTheorem == Spec => []NullsAreTrue
  <1>1. ASSUME IInv PROVE NullsAreTrue
    <2>1. DOMAIN out = 1 .. Len(out)
      BY <1>1 DEF IInv, TypeOK
    <2>2. \A i \in 1 .. Len(out) : /\ out[i].row = batch[i]
                                   /\ out[i].null = (batch[i] \in reverts)
      <3>1. \A i \in 1 .. Len(out) : out[i] = Answer(batch[i])
        BY <1>1 DEF IInv, OutInv
      <3>2. \A r : Answer(r).row = r /\ Answer(r).null = (r \in reverts)
        BY DEF Answer
      <3> QED
        BY <3>1, <3>2, Zenon
    <2>3. require_success /\ deployed => \A i \in 1 .. Len(out) : batch[i] \notin reverts
      BY <1>1 DEF IInv, OutInv
    <2> QED
      BY <2>1, <2>2, <2>3 DEF NullsAreTrue, NullMeansRefused, StrictBatchesHaveNoNulls
  <1> QED
    BY MulticallInvariant, <1>1, PTL

(***************************************************************************)
(* n rows take at most 2n - 1 requests, and none of these carries more     *)
(* inner calls than --multicall-batch-size allows unless it is one row.    *)
(***************************************************************************)
THEOREM RequestsTheorem == Spec => []RequestsAreBounded
  <1>1. ASSUME IInv PROVE RequestsAreBounded
    <2>1. /\ budget \in Nat /\ calls \in Nat /\ sent \in Nat /\ IsRun(batch)
          /\ Len(batch) \in Nat /\ Len(batch) >= 1
          /\ Len(out) \in Nat /\ Len(stack) \in Nat
      BY <1>1, RunFacts DEF IInv, TypeOK
    <2>2. sent <= 2 * Len(batch) - 1
      <3>1. CASE ~deployed
        BY <1>1, <2>1, <3>1 DEF IInv, CountInv
      <3>2. CASE deployed /\ pc = "err"
        BY <1>1, <3>2 DEF IInv, CountInv
      <3>3. CASE deployed /\ Holding
        <4>1. /\ Len(out) + Len(stack) + 1 <= Len(batch)
              /\ sent <= 2 * Len(out) + Len(stack) + 1
          BY <1>1, <3>3, HeldFacts
        <4> QED
          BY <2>1, <4>1
      <3>4. CASE deployed /\ pc # "err" /\ ~Holding
        <4>1. Pending = stack /\ stack \in Seq(Seq(Int)) /\ batch[1] \in Int /\ Hi(batch) \in Int
          BY <1>1, <2>1, <3>4, RunFacts DEF Pending, IInv, TypeOK
        <4>2. Chain(stack, batch[1] + Len(out), Hi(batch))
          BY <1>1, <3>4, <4>1 DEF IInv, LadderInv
        <4>3. batch[1] + Len(out) \in Int
          BY <2>1, <4>1
        <4>4. batch[1] + Len(out) + Len(stack) <= Hi(batch) + 1
          BY <4>1, <4>2, <4>3, ChainBound
        <4>5. Len(out) + Len(stack) <= Len(batch)
          BY <2>1, <4>1, <4>4 DEF Hi
        <4>6. sent <= 2 * Len(out) + Len(stack) - 1
          BY <1>1, <3>4, <4>1 DEF IInv, CountInv
        <4> QED
          BY <2>1, <4>5, <4>6
      <3> QED
        BY <3>1, <3>2, <3>3, <3>4
    <2>3. ASSUME pc = "await" PROVE Len(current) * calls <= budget \/ Len(current) = 1
      <3>1. deployed /\ Holding
        BY <1>1, <2>3 DEF IInv, LadderInv, Holding
      <3>2. Len(current) \in Nat /\ Len(current) >= 1 /\ Len(current) <= Len(batch)
        BY <1>1, <2>1, <3>1, HeldFacts
      <3>3. Len(batch) <= rows_per_batch(budget, calls)
        BY <1>1, <3>1 DEF IInv, CountInv
      <3>4. rows_per_batch(budget, calls) \in Nat
        BY <2>1, RowsPerBatch
      <3>5. Len(current) <= rows_per_batch(budget, calls)
        BY <2>1, <3>2, <3>3, <3>4
      <3>6. Len(current) * calls <= budget \/ Len(current) <= 1
        BY <2>1, <3>2, <3>5, RowsPerBatch
      <3>7. \A k \in Nat : k >= 1 /\ k <= 1 => k = 1
        OBVIOUS
      <3> QED
        BY <3>2, <3>6, <3>7
    <2> QED
      BY <2>2, <2>3 DEF RequestsAreBounded
  <1> QED
    BY MulticallInvariant, <1>1, PTL

=============================================================================
