--------------------------- MODULE SendBatchProofs --------------------------
(***************************************************************************)
(* For any number of calls, any default size, any cap of the provider and  *)
(* any set of faults: send_batch's results are a prefix of the answers in  *)
(* request order, a cap alone never fails the call, and finding the cap    *)
(* costs at most ceil(log2(DefaultSize)) refused requests.                 *)
(***************************************************************************)
EXTENDS SendBatch, SequenceTheorems, FiniteSetTheorems, TLAPS

TypeOK ==
  /\ n \in 0 .. MaxCalls
  /\ cap \in 0 .. DefaultSize
  /\ nulls \in SUBSET (1 .. n)
  /\ optional \in BOOLEAN
  /\ runner \in BOOLEAN
  /\ size \in 1 .. DefaultSize
  /\ sent \in 0 .. n
  /\ pc \in {"loop", "fallback", "ok", "err"}
  /\ refusals \in Nat

\* The first k answers in request order.
Answers(k) == [i \in 1 .. k |-> Result(i)]

(***************************************************************************)
(* Up to the end the results are the answers to the calls sent so far; a   *)
(* fallback that succeeds replaces them by all of them.                    *)
(***************************************************************************)
ResultsInv == out = Answers(IF pc = "ok" THEN n ELSE sent)

(***************************************************************************)
(* Halving rounds up, so what it halves is the distance of the size from   *)
(* one: after k refusals that distance is at most (DefaultSize - 1) / 2^k. *)
(* That keeps the size positive and bounds the refusals.                   *)
(***************************************************************************)
SizeInv ==
  /\ (size - 1) * 2 ^ refusals <= DefaultSize - 1
  /\ DiscoveryIsLogarithmic
  /\ cause = "size" => cap = 0

IInv == TypeOK /\ ResultsInv /\ SizeInv

-----------------------------------------------------------------------------
LEMMA NextCases ==
  ASSUME [Next]_vars
  PROVE  \/ Accepted \/ TooLarge \/ TooLargeForOne \/ ItemErr \/ Return \/ FallbackOk
         \/ Unencodable \/ EnvelopeErr \/ DecodeErr \/ FallbackErr
         \/ UNCHANGED vars
  BY DEF Next, Step, Fault, Stop

(* Powers of two, which the provers do not know: 2^k counts the subsets of *)
(* 1 .. k, and those of 1 .. k + 1 are these, with and without k + 1.      *)
LEMMA PowerOfTwo ==
  ASSUME NEW k \in Nat
  PROVE  2 ^ k \in Nat /\ 2 ^ (k + 1) = 2 * 2 ^ k
  <1> DEFINE S == SUBSET (1 .. k)
             T == {A \cup {k + 1} : A \in S}
             f == [A \in S |-> A \cup {k + 1}]
  <1>1. /\ IsFiniteSet(1 .. k) /\ Cardinality(1 .. k) = k
        /\ IsFiniteSet(1 .. k + 1) /\ Cardinality(1 .. k + 1) = k + 1
    BY FS_Interval
  <1>2. /\ IsFiniteSet(S) /\ Cardinality(S) = 2 ^ k
        /\ Cardinality(SUBSET (1 .. k + 1)) = 2 ^ (k + 1)
    BY <1>1, FS_SUBSET
  <1>3. Cardinality(S) \in Nat
    BY <1>2, FS_CardinalityType
  <1>4. \A A \in S : k + 1 \notin A
    OBVIOUS
  <1>5. ExistsBijection(S, T)
    <2>1. \A A, B \in S : A \cup {k + 1} = B \cup {k + 1} => A = B
      BY <1>4
    <2>2. f \in [S -> T] /\ \A A \in S : f[A] = A \cup {k + 1}
      OBVIOUS
    <2>3. \A B \in T : \E A \in S : f[A] = B
      OBVIOUS
    <2> HIDE DEF S, T, f
    <2>4. f \in Bijection(S, T)
      BY <2>1, <2>2, <2>3 DEF Bijection, Injection, Surjection, IsInjective
    <2> QED
      BY <2>4 DEF ExistsBijection
  <1>6. IsFiniteSet(T) /\ Cardinality(T) = Cardinality(S)
    <2> HIDE DEF S, T
    <2> QED
      BY <1>2, <1>5, FS_Bijection
  <1>7. S \cap T = {}
    BY <1>4
  <1>8. S \cup T = SUBSET (1 .. k + 1)
    <2>1. 1 .. k + 1 = (1 .. k) \cup {k + 1}
      OBVIOUS
    <2>2. ASSUME NEW B \in SUBSET (1 .. k + 1), B \notin S PROVE B \in T
      <3>1. k + 1 \in B
        BY <2>1, <2>2
      <3>2. B \ {k + 1} \in S /\ B = (B \ {k + 1}) \cup {k + 1}
        BY <2>1, <3>1
      <3> QED
        BY <3>2
    <2>3. ASSUME NEW B \in S PROVE B \in SUBSET (1 .. k + 1)
      BY <2>1
    <2>4. ASSUME NEW B \in T PROVE B \in SUBSET (1 .. k + 1)
      BY <2>1
    <2> HIDE DEF S, T
    <2> QED
      BY <2>2, <2>3, <2>4
  <1> HIDE DEF S, T
  <1>9. Cardinality(S \cup T) = Cardinality(S) + Cardinality(T) - Cardinality({})
    BY <1>2, <1>6, <1>7, FS_Union
  <1>10. Cardinality({}) = 0
    BY FS_EmptySet
  <1>11. Cardinality(S \cup T) = 2 * Cardinality(S)
    BY <1>3, <1>6, <1>9, <1>10
  <1>12. 2 ^ k \in Nat
    BY <1>2, <1>3
  <1>13. 2 ^ (k + 1) = 2 * 2 ^ k
    BY <1>2, <1>8, <1>11, Zenon
  <1> QED
    BY <1>12, <1>13

(* Rounding the half up halves the distance from one.                      *)
LEMMA Halving ==
  ASSUME NEW s \in Nat, s > 1
  PROVE  LET h == (s + 1) \div 2
         IN  h \in Nat /\ 1 <= h /\ h < s /\ 2 * (h - 1) <= s - 1
  OBVIOUS

(* The invariant's product under one halving.                              *)
LEMMA HalvedProduct ==
  ASSUME NEW d \in Nat, NEW e \in Nat, NEW p \in Nat, NEW b \in Nat,
         2 * e <= d, d * p <= b
  PROVE  e * (2 * p) <= b
  <1>1. e * (2 * p) = (2 * e) * p
    OBVIOUS
  <1>2. (2 * e) * p <= d * p
    OBVIOUS
  <1> QED
    BY <1>1, <1>2

LEMMA EndIs ==
  ASSUME TypeOK, sent < n
  PROVE  End \in sent + 1 .. n
  BY SendBatchAssumption DEF TypeOK, End

(* The results of one request appended to those of the calls before it.    *)
LEMMA AppendAnswers ==
  ASSUME NEW k \in Nat, NEW m \in Nat, k <= m
  PROVE  Answers(k) \o [i \in 1 .. m - k |-> Result(k + i)] = Answers(m)
  <1> DEFINE S == {Result(i) : i \in Nat}
             a == Answers(k)
             b == [i \in 1 .. m - k |-> Result(k + i)]
             c == Answers(m)
  <1>1. a \in [1 .. k -> S] /\ b \in [1 .. m - k -> S] /\ c \in [1 .. m -> S]
    BY DEF Answers
  <1>2. /\ \A i \in 1 .. k : a[i] = Result(i)
        /\ \A i \in 1 .. m - k : b[i] = Result(k + i)
        /\ \A i \in 1 .. m : c[i] = Result(i)
    BY DEF Answers
  <1> HIDE DEF S, a, b, c
  <1>3. m - k \in Nat
    OBVIOUS
  <1>4. /\ a \in Seq(S) /\ b \in Seq(S) /\ c \in Seq(S)
        /\ Len(a) = k /\ Len(b) = m - k /\ Len(c) = m
    BY <1>1, <1>3
  <1>5. /\ a \o b \in Seq(S)
        /\ Len(a \o b) = m
        /\ \A i \in 1 .. m : (a \o b)[i] = IF i <= k THEN a[i] ELSE b[i - k]
    BY <1>4, ConcatProperties
  <1>6. ASSUME NEW i \in 1 .. m PROVE (a \o b)[i] = c[i]
    <2>1. CASE i <= k
      BY <1>2, <1>5, <2>1
    <2>2. CASE ~(i <= k)
      <3>1. i - k \in 1 .. m - k /\ k + (i - k) = i
        BY <2>2
      <3> QED
        BY <1>2, <1>5, <2>2, <3>1
    <2> QED
      BY <2>1, <2>2
  <1>7. a \o b = c
    BY <1>4, <1>5, <1>6, SeqEqual
  <1> QED
    BY <1>7 DEF a, b, c

-----------------------------------------------------------------------------
LEMMA InitIInv == Init => IInv
  <1> SUFFICES ASSUME Init PROVE IInv
    OBVIOUS
  <1>1. TypeOK
    BY SendBatchAssumption DEF Init, TypeOK
  <1>2. ResultsInv
    <2>1. 1 .. 0 = {}
      OBVIOUS
    <2>2. Answers(0) = <<>>
      BY <2>1 DEF Answers
    <2> QED
      BY <2>2 DEF Init, ResultsInv
  <1>3. SizeInv
    <2>1. 2 ^ 0 = 1
      OBVIOUS
    <2>2. (DefaultSize - 1) * 1 <= DefaultSize - 1
      BY SendBatchAssumption
    <2> QED
      BY <2>1, <2>2 DEF Init, SizeInv, DiscoveryIsLogarithmic
  <1> QED
    BY <1>1, <1>2, <1>3 DEF IInv

LEMMA TypeStep == IInv /\ [Next]_vars => TypeOK'
  <1> SUFFICES ASSUME IInv, [Next]_vars PROVE TypeOK'
    OBVIOUS
  <1> USE SendBatchAssumption DEF TypeOK, input
  <1>0. TypeOK
    BY DEF IInv
  <1>1. ASSUME NEW why, pc # "ok", Fail(why) PROVE TypeOK'
    BY <1>0, <1>1 DEF Fail
  <1>2. ASSUME Accepted PROVE TypeOK'
    <2>1. sent' \in 0 .. n
      BY <1>0, <1>2, EndIs DEF Accepted
    <2> QED
      BY <1>0, <1>2, <2>1 DEF Accepted
  <1>3. ASSUME TooLarge PROVE TypeOK'
    <2>1. size \in Nat /\ size > 1 /\ size <= DefaultSize
      BY <1>0, <1>3 DEF TooLarge
    <2>2. size' \in 1 .. DefaultSize
      BY <1>3, <2>1, Halving DEF TooLarge
    <2>3. refusals' \in Nat
      BY <1>0, <1>3 DEF TooLarge
    <2> QED
      BY <1>0, <1>3, <2>2, <2>3 DEF TooLarge
  <1>4. ASSUME TooLargeForOne PROVE TypeOK'
    BY <1>1, <1>4 DEF TooLargeForOne
  <1>5. ASSUME ItemErr PROVE TypeOK'
    BY <1>1, <1>5 DEF ItemErr
  <1>6. ASSUME Return PROVE TypeOK'
    BY <1>0, <1>6 DEF Return
  <1>7. ASSUME FallbackOk PROVE TypeOK'
    BY <1>0, <1>7 DEF FallbackOk
  <1>8. ASSUME Unencodable PROVE TypeOK'
    BY <1>1, <1>8 DEF Unencodable
  <1>9. ASSUME EnvelopeErr PROVE TypeOK'
    BY <1>1, <1>9 DEF EnvelopeErr
  <1>10. ASSUME DecodeErr PROVE TypeOK'
    BY <1>0, <1>10 DEF DecodeErr
  <1>11. ASSUME FallbackErr PROVE TypeOK'
    BY <1>0, <1>11 DEF FallbackErr
  <1>12. ASSUME UNCHANGED vars PROVE TypeOK'
    BY <1>0, <1>12 DEF vars
  <1> QED
    BY NextCases, <1>2, <1>3, <1>4, <1>5, <1>6, <1>7, <1>8, <1>9, <1>10, <1>11, <1>12

LEMMA ResultsStep == IInv /\ [Next]_vars => ResultsInv'
  <1> SUFFICES ASSUME IInv, [Next]_vars PROVE ResultsInv'
    OBVIOUS
  <1> USE DEF ResultsInv, input
  <1>0. TypeOK /\ ResultsInv
    BY DEF IInv
  <1>1. ASSUME nulls' = nulls PROVE \A k : Answers(k)' = Answers(k)
    BY <1>1 DEF Answers, Result
  <1>2. ASSUME pc # "ok", pc' # "ok", UNCHANGED <<nulls, out, sent>>
        PROVE  ResultsInv'
    BY <1>0, <1>1, <1>2
  <1>3. ASSUME NEW why, pc # "ok", Fail(why) PROVE ResultsInv'
    BY <1>2, <1>3 DEF Fail
  <1>4. ASSUME Accepted PROVE ResultsInv'
    <2>1. sent \in Nat /\ End \in Nat /\ sent <= End
      BY <1>0, <1>4, EndIs, SendBatchAssumption DEF Accepted, TypeOK
    <2>2. out' = Answers(sent) \o [i \in 1 .. End - sent |-> Result(sent + i)]
      BY <1>0, <1>4 DEF Accepted
    <2>3. out' = Answers(End)
      BY <2>1, <2>2, AppendAnswers
    <2> QED
      BY <1>1, <1>4, <2>3 DEF Accepted
  <1>5. ASSUME TooLarge PROVE ResultsInv'
    BY <1>2, <1>5 DEF TooLarge
  <1>6. ASSUME TooLargeForOne PROVE ResultsInv'
    BY <1>3, <1>6 DEF TooLargeForOne
  <1>7. ASSUME ItemErr PROVE ResultsInv'
    BY <1>3, <1>7 DEF ItemErr
  <1>8. ASSUME Return PROVE ResultsInv'
    <2>1. sent = n
      BY <1>0, <1>8, SendBatchAssumption DEF Return, TypeOK
    <2> QED
      BY <1>0, <1>1, <1>8, <2>1 DEF Return
  <1>9. ASSUME FallbackOk PROVE ResultsInv'
    BY <1>1, <1>9 DEF FallbackOk, Answers
  <1>10. ASSUME Unencodable PROVE ResultsInv'
    BY <1>3, <1>10 DEF Unencodable
  <1>11. ASSUME EnvelopeErr PROVE ResultsInv'
    BY <1>3, <1>11 DEF EnvelopeErr
  <1>12. ASSUME DecodeErr PROVE ResultsInv'
    BY <1>2, <1>12 DEF DecodeErr
  <1>13. ASSUME FallbackErr PROVE ResultsInv'
    BY <1>2, <1>13 DEF FallbackErr
  <1>14. ASSUME UNCHANGED vars PROVE ResultsInv'
    BY <1>0, <1>1, <1>14 DEF vars
  <1> QED
    BY NextCases, <1>4, <1>5, <1>6, <1>7, <1>8, <1>9, <1>10, <1>11, <1>12, <1>13, <1>14

LEMMA SizeStep == IInv /\ [Next]_vars => SizeInv'
  <1> SUFFICES ASSUME IInv, [Next]_vars PROVE SizeInv'
    OBVIOUS
  <1> USE DEF SizeInv, DiscoveryIsLogarithmic, input
  <1>0. TypeOK /\ SizeInv
    BY DEF IInv
  <1>1. ASSUME UNCHANGED <<cap, size, refusals>>,
               cause' = "size" => cause = "size" \/ cap = 0
        PROVE  SizeInv'
    BY <1>0, <1>1
  <1>2. ASSUME TooLarge PROVE SizeInv'
    <2> DEFINE p == 2 ^ refusals
               d == size - 1
               e == size' - 1
               b == DefaultSize - 1
    <2>1. /\ refusals \in Nat /\ size \in Nat /\ size > 1 /\ DefaultSize \in Nat
          /\ d \in Nat /\ d >= 1 /\ b \in Nat
      BY <1>0, <1>2, SendBatchAssumption DEF TooLarge, TypeOK
    <2>2. /\ refusals' = refusals + 1 /\ size' = (size + 1) \div 2
          /\ cap' = cap /\ cause' = cause
      BY <1>2 DEF TooLarge
    <2>3. p \in Nat /\ 2 ^ (refusals + 1) = 2 * p
      BY <2>1, PowerOfTwo
    <2>4. e \in Nat /\ 2 * e <= d
      BY <2>1, <2>2, Halving
    <2>5. d * p <= b
      BY <1>0
    <2> HIDE DEF p, d, e, b
    <2>6. e * (2 * p) <= b
      BY <2>1, <2>3, <2>4, <2>5, HalvedProduct
    <2>7. (size' - 1) * 2 ^ refusals' <= DefaultSize - 1
      BY <2>2, <2>3, <2>6 DEF e, b
    <2>8. p <= d * p
      BY <2>1, <2>3
    <2>9. p <= b
      BY <2>1, <2>3, <2>5, <2>8
    <2>10. p < DefaultSize
      BY <2>1, <2>3, <2>9 DEF b
    <2>11. refusals' - 1 = refusals
      BY <2>1, <2>2
    <2>12. 2 ^ (refusals' - 1) < DefaultSize
      BY <2>10, <2>11 DEF p
    <2> QED
      BY <1>0, <2>2, <2>7, <2>12
  <1>3. ASSUME TooLargeForOne PROVE SizeInv'
    <2>1. size = 1 /\ sent \in Int /\ n \in Int /\ sent < n
      BY <1>0, <1>3, SendBatchAssumption DEF TooLargeForOne, TypeOK
    <2>2. InHand = {sent + 1}
      BY <2>1 DEF InHand, End
    <2>3. Cardinality(InHand) = 1
      BY <2>2, FS_Singleton
    <2>4. cap = 0
      BY <1>0, <1>3, <2>3, SendBatchAssumption DEF TooLargeForOne, TypeOK
    <2> QED
      BY <1>1, <1>3, <2>4 DEF TooLargeForOne, Fail
  <1>4. ASSUME Accepted PROVE SizeInv'
    BY <1>1, <1>4 DEF Accepted
  <1>5. ASSUME ItemErr PROVE SizeInv'
    BY <1>1, <1>5 DEF ItemErr, Fail
  <1>6. ASSUME Return PROVE SizeInv'
    BY <1>1, <1>6 DEF Return
  <1>7. ASSUME FallbackOk PROVE SizeInv'
    BY <1>1, <1>7 DEF FallbackOk
  <1>8. ASSUME Unencodable PROVE SizeInv'
    BY <1>1, <1>8 DEF Unencodable, Fail
  <1>9. ASSUME EnvelopeErr PROVE SizeInv'
    BY <1>1, <1>9 DEF EnvelopeErr, Fail
  <1>10. ASSUME DecodeErr PROVE SizeInv'
    BY <1>1, <1>10 DEF DecodeErr
  <1>11. ASSUME FallbackErr PROVE SizeInv'
    BY <1>1, <1>11 DEF FallbackErr
  <1>12. ASSUME UNCHANGED vars PROVE SizeInv'
    BY <1>1, <1>12 DEF vars
  <1> QED
    BY NextCases, <1>2, <1>3, <1>4, <1>5, <1>6, <1>7, <1>8, <1>9, <1>10, <1>11, <1>12

(***************************************************************************)
(* send_batch keeps its types, its results and its size in step.           *)
(***************************************************************************)
THEOREM SendBatchInvariant == Spec => []IInv
  <1>1. IInv /\ [Next]_vars => IInv'
    BY TypeStep, ResultsStep, SizeStep DEF IInv
  <1> QED
    BY InitIInv, <1>1, PTL DEF Spec

(***************************************************************************)
(* The results of send_batch, and of a batch that fell back to its rows,   *)
(* are in request order, with none missing and none twice, across every    *)
(* change of the batch size.                                               *)
(***************************************************************************)
THEOREM ResultsTheorem == Spec => []ResultsInRequestOrder
  <1>1. IInv => ResultsInRequestOrder
    <2> SUFFICES ASSUME IInv PROVE ResultsInRequestOrder
      OBVIOUS
    <2> DEFINE k == IF pc = "ok" THEN n ELSE sent
    <2>1. k \in Nat /\ k <= n /\ n \in Nat
      BY SendBatchAssumption DEF IInv, TypeOK
    <2>2. out = Answers(k)
      BY DEF IInv, ResultsInv
    <2>3. DOMAIN Answers(k) = 1 .. k /\ \A i \in 1 .. k : Answers(k)[i] = Result(i)
      BY DEF Answers
    <2>4. Len(Answers(k)) = k
      <3>1. Answers(k) \in [1 .. k -> {Result(i) : i \in 1 .. k}]
        BY DEF Answers
      <3> HIDE DEF k
      <3> QED
        BY <2>1, <3>1
    <2> QED
      BY <2>1, <2>2, <2>3, <2>4 DEF ResultsInRequestOrder
  <1> QED
    BY SendBatchInvariant, <1>1, PTL

(***************************************************************************)
(* Only a provider that refuses even a batch of one can fail the call with *)
(* its size complaint, and no call is refused more than                    *)
(* ceil(log2(DefaultSize)) times.                                          *)
(***************************************************************************)
THEOREM CapTheorem == Spec => []CapIsFound
  <1>1. IInv => CapIsFound
    BY DEF IInv, SizeInv, CapIsFound, AnyCapIsRead
  <1> QED
    BY SendBatchInvariant, <1>1, PTL

=============================================================================
