-------------------------- MODULE BlockInputProofs --------------------------
(***************************************************************************)
(* For any chain, any growth of it, any list of expressions and any        *)
(* options: the blocks a command parses to are natural numbers, open       *)
(* ranges reach the head, ranges of times cover their times, the reorg     *)
(* buffer keeps young blocks out, and cutting loses and repeats no block.  *)
(***************************************************************************)
EXTENDS BlockInput, InductionLemmas

NumberChunk ==
  [kind : {"numbers"}, items : Seq(Nat)]
    \cup {c \in [kind : {"range"}, from : Nat, to : Nat] : c.from <= c.to}

\* The search found the last block of latest that is not after time, or block 0.
BlockAt(r, time, latest) ==
  /\ r \in 0 .. latest
  /\ \A b \in 0 .. latest : b > r => TimeOf[b] > time
  /\ r > 0 => TimeOf[r] <= time

-----------------------------------------------------------------------------
(* Chunks                                                                  *)

LEMMA MaxOfSeq ==
  ASSUME NEW s \in Seq(Nat), s # <<>>
  PROVE  /\ Max(ToSet(s)) \in Nat
         /\ \A v \in ToSet(s) : v <= Max(ToSet(s))
  <1> DEFINE n == Len(s)
             Top(m, k) == \A i \in 1 .. m : s[i] <= s[k]
             T == {m \in 1 .. n : ~ \E k \in 1 .. m : Top(m, k)}
  <1>1. n \in Nat \ {0} /\ \A i \in 1 .. n : s[i] \in Nat
    OBVIOUS
  <1>2. ASSUME NEW m \in 1 .. n, m # 1 => m - 1 \notin T PROVE m \notin T
    <2>1. CASE m = 1
      <3>1. 1 \in 1 .. 1 /\ Top(1, 1)
        BY <1>1
      <3> HIDE DEF Top
      <3> QED
        BY <2>1, <3>1
    <2>2. CASE m # 1
      <3>1. m - 1 \in 1 .. n /\ m \in 1 .. m
        BY <1>1, <2>2
      <3>2. PICK k \in 1 .. m - 1 : Top(m - 1, k)
        BY <1>2, <2>2, <3>1
      <3>3. k \in 1 .. m /\ k \in 1 .. n
        BY <1>1, <3>2
      <3>4. \A i \in 1 .. m : i = m \/ i \in 1 .. m - 1
        BY <1>1
      <3>5. CASE s[m] <= s[k]
        <4>1. Top(m, k)
          BY <3>2, <3>4, <3>5
        <4> HIDE DEF Top
        <4> QED
          BY <3>3, <4>1
      <3>6. CASE ~(s[m] <= s[k])
        <4>1. s[m] <= s[m] /\ s[k] <= s[m]
          BY <1>1, <3>3, <3>6
        <4>2. \A i \in 1 .. m - 1 : s[i] <= s[m]
          <5> TAKE i \in 1 .. m - 1
          <5>1. s[i] \in Nat /\ s[k] \in Nat /\ s[m] \in Nat
            BY <1>1, <3>3
          <5> QED
            BY <3>2, <4>1, <5>1
        <4>3. Top(m, m)
          BY <3>4, <4>1, <4>2
        <4> HIDE DEF Top
        <4> QED
          BY <3>1, <4>3
      <3> QED
        BY <3>5, <3>6
    <2> QED
      BY <2>1, <2>2
  <1>3. T = {}
    <2>1. T \subseteq 1 .. n
      OBVIOUS
    <2> HIDE DEF T, n
    <2> QED
      BY <1>1, <1>2, <2>1, NoFirst
  <1>4. PICK k \in 1 .. n : Top(n, k)
    <2>1. n \in 1 .. n
      BY <1>1
    <2>2. n \notin T
      BY <1>3, Zenon
    <2> HIDE DEF Top, n
    <2> QED
      BY <2>1, <2>2
  <1>5. \E x \in ToSet(s) : \A y \in ToSet(s) : x >= y
    <2>1. s[k] \in ToSet(s) /\ \A y \in ToSet(s) : s[k] >= y
      BY <1>1, <1>4 DEF ToSet
    <2> QED
      BY <2>1
  <1>6. Max(ToSet(s)) \in ToSet(s) /\ \A y \in ToSet(s) : Max(ToSet(s)) >= y
    BY <1>5 DEF Max
  <1>7. ToSet(s) \subseteq Nat
    BY DEF ToSet
  <1> QED
    BY <1>6, <1>7

LEMMA ChunkValues ==
  ASSUME NEW c \in NumberChunk
  PROVE  /\ values(c) \in Seq(Nat)
         /\ size(c) \in Nat
         /\ \A m \in max_value(c) : m \in Nat /\ \A v \in ToSet(values(c)) : v <= m
  <1>1. CASE c \in [kind : {"numbers"}, items : Seq(Nat)]
    <2>1. c.kind # "range" /\ c.items \in Seq(Nat)
      BY <1>1
    <2>2. values(c) = c.items /\ size(c) = Len(c.items)
      BY <2>1 DEF values, size
    <2>3. CASE c.items = <<>>
      BY <2>1, <2>2, <2>3 DEF max_value
    <2>4. CASE c.items # <<>>
      <3>1. max_value(c) = {Max(ToSet(c.items))}
        BY <2>1, <2>4 DEF max_value
      <3> QED
        BY <2>1, <2>2, <2>4, <3>1, MaxOfSeq
    <2> QED
      BY <2>3, <2>4
  <1>2. CASE c \in {d \in [kind : {"range"}, from : Nat, to : Nat] : d.from <= d.to}
    <2>1. c.kind = "range" /\ c.from \in Nat /\ c.to \in Nat /\ c.from <= c.to
      BY <1>2
    <2>2. values(c) = [i \in 1 .. c.to - c.from + 1 |-> c.from + i - 1]
      BY <2>1 DEF values
    <2>3. c.to - c.from + 1 \in Nat
      BY <2>1
    <2>4. \A i \in 1 .. c.to - c.from + 1 : c.from + i - 1 \in Nat /\ c.from + i - 1 <= c.to
      BY <2>1
    <2>5. values(c) \in Seq(Nat) /\ DOMAIN values(c) = 1 .. c.to - c.from + 1
      BY <2>2, <2>3, <2>4
    <2>6. \A v \in ToSet(values(c)) : v <= c.to
      BY <2>2, <2>4, <2>5 DEF ToSet
    <2> QED
      BY <2>1, <2>3, <2>5, <2>6 DEF size, max_value
  <1> QED
    BY <1>1, <1>2 DEF NumberChunk

LEMMA RangeChunk ==
  ASSUME NEW start \in Nat, NEW end \in Nat, start <= end
  PROVE  LET c == BlockRange(start, end)
             d == Numbers(values(c))
         IN /\ c \in NumberChunk /\ d \in NumberChunk
            /\ values(c) \in Seq(Nat) /\ values(d) = values(c)
            /\ ToSet(values(c)) = start .. end
            /\ max_value(c) = {end} /\ max_value(d) = {end}
            /\ Len(values(c)) = end - start + 1
            /\ \A i \in 1 .. end - start + 1 : values(c)[i] = start + i - 1
  <1> DEFINE c == BlockRange(start, end)
             d == Numbers(values(c))
             n == end - start + 1
  <1>1. c \in NumberChunk /\ c.kind = "range" /\ c.from = start /\ c.to = end
    BY DEF BlockRange, NumberChunk
  <1>2. values(c) \in Seq(Nat)
    BY <1>1, ChunkValues
  <1>3. d \in NumberChunk /\ d.kind = "numbers" /\ d.items = values(c)
    BY <1>2 DEF Numbers, NumberChunk
  <1>4. values(d) = values(c)
    BY <1>3 DEF values
  <1>5. values(c) = [i \in 1 .. n |-> start + i - 1] /\ n \in Nat
    BY <1>1 DEF values
  <1>6. Len(values(c)) = n /\ DOMAIN values(c) = 1 .. n
    BY <1>2, <1>5
  <1>7. ToSet(values(c)) = start .. end
    <2>1. ASSUME NEW v \in start .. end PROVE v \in ToSet(values(c))
      <3>1. v - start + 1 \in 1 .. n /\ start + (v - start + 1) - 1 = v
        OBVIOUS
      <3>2. values(c)[v - start + 1] = v
        BY <1>5, <3>1
      <3> QED
        BY <1>6, <3>1, <3>2 DEF ToSet
    <2>2. ASSUME NEW v \in ToSet(values(c)) PROVE v \in start .. end
      <3>1. PICK i \in 1 .. n : v = values(c)[i]
        BY <1>6 DEF ToSet
      <3>2. v = start + i - 1
        BY <1>5, <3>1
      <3> QED
        BY <3>2
    <2> QED
      BY <2>1, <2>2
  <1>8. max_value(c) = {end}
    BY <1>1 DEF max_value
  <1>9. max_value(d) = {end}
    <2>1. values(c) # <<>>
      BY <1>5, <1>6
    <2>2. max_value(d) = {Max(start .. end)}
      BY <1>3, <1>7, <2>1 DEF max_value
    <2>3. end \in start .. end /\ \A y \in start .. end : end >= y
      OBVIOUS
    <2>4. \A x \in start .. end : (\A y \in start .. end : x >= y) => x = end
      OBVIOUS
    <2>5. Max(start .. end) = end
      BY <2>3, <2>4 DEF Max
    <2> QED
      BY <2>2, <2>5
  <1> HIDE DEF c, d
  <1>10. \A i \in 1 .. n : values(c)[i] = start + i - 1
    BY <1>5
  <1> QED
    BY <1>1, <1>2, <1>3, <1>4, <1>6, <1>7, <1>8, <1>9, <1>10 DEF c, d

LEMMA SpacedSubset ==
  ASSUME NEW s \in Seq(Nat), NEW n \in Nat
  PROVE  evenly_spaced_subset(s, n) \in Seq(Nat)
  <1>1. CASE n = 0 \/ s = <<>> \/ n >= Len(s)
    BY <1>1 DEF evenly_spaced_subset
  <1>2. CASE ~(n = 0 \/ s = <<>> \/ n >= Len(s)) /\ n = 1
    <2>1. s[1] \in Nat
      BY <1>2
    <2> QED
      BY <1>2, <2>1 DEF evenly_spaced_subset
  <1>3. CASE ~(n = 0 \/ s = <<>> \/ n >= Len(s)) /\ n # 1
    <2> DEFINE len == Len(s)
               at_(i) == ((i - 1) * (len - 1)) \div (n - 1) + 1
    <2>1. len \in Nat /\ n > 1 /\ len > n
      BY <1>3
    <2>2. ASSUME NEW i \in 1 .. n PROVE at_(i) \in 1 .. len
      <3> DEFINE a == i - 1
                 b == len - 1
                 d == n - 1
      <3>1. a \in Nat /\ b \in Nat /\ d \in Nat \ {0} /\ a <= d
        BY <2>1
      <3>2. \A x, y \in Nat, z \in Nat \ {0} : x <= z => x * y <= z * y /\ x * y \in Nat
        OBVIOUS
      <3>3. \A p, y \in Nat, z \in Nat \ {0} : p <= z * y => p \div z <= y /\ p \div z \in Nat
        OBVIOUS
      <3>4. (a * b) \div d <= b /\ (a * b) \div d \in Nat
        <4> HIDE DEF a, b, d
        <4> QED
          BY <3>1, <3>2, <3>3
      <3> QED
        BY <2>1, <3>4
    <2>3. evenly_spaced_subset(s, n) = [i \in 1 .. n |-> s[at_(i)]]
      BY <1>3 DEF evenly_spaced_subset
    <2>4. \A i \in 1 .. n : s[at_(i)] \in Nat
      <3> HIDE DEF at_
      <3> QED
        BY <2>2
    <2> HIDE DEF at_
    <2> QED
      BY <2>3, <2>4
  <1> QED
    BY <1>1, <1>2, <1>3

\* The chunk of a plain range is that range.
Spans(c, start, end) ==
  start <= end /\ ToSet(values(c)) = start .. end /\ max_value(c) = {end}

(* What a token of a range becomes.                                        *)
LEMMA RangeToChunk ==
  ASSUME NEW start \in Nat, NEW end \in Nat, NEW as_range \in BOOLEAN, NEW t \in Token,
         NEW r, r = block_range_to_block_chunk(start, end, as_range, t), r.ok
  PROVE  /\ r.val \in NumberChunk
         /\ t.kind = "range" => Spans(r.val, start, end)
  <1> DEFINE c == BlockRange(start, end)
             all == values(c)
             stepped == [i \in 1 .. (end - start) \div t.step + 1 |-> start + (i - 1) * t.step]
  <1>1. start <= end
    BY DEF block_range_to_block_chunk, Err
  <1>2. /\ c \in NumberChunk /\ Numbers(all) \in NumberChunk /\ all \in Seq(Nat)
        /\ values(Numbers(all)) = all
        /\ ToSet(all) = start .. end
        /\ max_value(c) = {end} /\ max_value(Numbers(all)) = {end}
    BY <1>1, RangeChunk
  <1>3. t.kind \in {"one", "range", "step", "keep"} /\ t.step \in Nat /\ t.keep \in Nat
    BY DEF Token
  <1>4. CASE t.kind = "keep"
    <2>1. r.val = Numbers(evenly_spaced_subset(all, t.keep))
      BY <1>1, <1>4 DEF block_range_to_block_chunk, Ok
    <2>2. evenly_spaced_subset(all, t.keep) \in Seq(Nat)
      BY <1>2, <1>3, SpacedSubset
    <2> QED
      BY <1>4, <2>1, <2>2 DEF Numbers, NumberChunk
  <1>5. CASE t.kind = "step"
    <2>1. t.step # 0 /\ r.val = Numbers(stepped)
      BY <1>1, <1>5 DEF block_range_to_block_chunk, Ok, Err
    <2>2. stepped \in Seq(Nat)
      <3>1. \A a \in Nat, b \in Nat \ {0} : a \div b \in Nat
        OBVIOUS
      <3>2. (end - start) \div t.step + 1 \in Nat
        BY <1>1, <1>3, <2>1, <3>1
      <3>3. \A i \in 1 .. (end - start) \div t.step + 1 : start + (i - 1) * t.step \in Nat
        <4> TAKE i \in 1 .. (end - start) \div t.step + 1
        <4>1. i - 1 \in Nat
          BY <3>2
        <4>2. \A a, b \in Nat : a * b \in Nat
          OBVIOUS
        <4>3. (i - 1) * t.step \in Nat
          BY <1>3, <4>1, <4>2
        <4> QED
          BY <4>3
      <3> QED
        BY <3>2, <3>3
    <2> QED
      BY <1>5, <2>1, <2>2 DEF Numbers, NumberChunk
  <1>6. CASE t.kind \notin {"keep", "step"}
    <2>1. r.val = IF as_range THEN c ELSE Numbers(all)
      BY <1>1, <1>6 DEF block_range_to_block_chunk, Ok
    <2> HIDE DEF c, all
    <2>2. CASE as_range
      BY <1>1, <1>2, <2>1, <2>2 DEF all, Spans
    <2>3. CASE ~as_range
      BY <1>1, <1>2, <2>1, <2>3 DEF Spans
    <2> QED
      BY <2>2, <2>3
  <1> QED
    BY <1>3, <1>4, <1>5, <1>6

-----------------------------------------------------------------------------
(* The search                                                              *)

LEMMA TimesIncrease ==
  ASSUME DistinctTimes
  PROVE  \A b \in 0 .. MaxHead : \A a \in 0 .. b - 1 : TimeOf[a] < TimeOf[b]
  <1> DEFINE Grows(b) == \A a \in 0 .. b - 1 : TimeOf[a] < TimeOf[b]
             T == {b \in 0 .. MaxHead : ~Grows(b)}
  <1>1. MaxHead \in Nat /\ \A b \in 0 .. MaxHead : TimeOf[b] \in Nat
    BY ChainAssumption
  <1>2. ASSUME NEW m \in 0 .. MaxHead, m # 0 => m - 1 \notin T PROVE m \notin T
    <2>1. CASE m = 0
      BY <2>1
    <2>2. CASE m # 0
      <3>1. m - 1 \in 0 .. MaxHead /\ m \in 1 .. MaxHead
        BY <1>1, <2>2
      <3>2. Grows(m - 1)
        BY <1>2, <2>2, <3>1
      <3>3. TimeOf[m - 1] < TimeOf[m]
        BY <3>1 DEF DistinctTimes
      <3>4. ASSUME NEW a \in 0 .. m - 1 PROVE TimeOf[a] < TimeOf[m]
        <4>1. a \in 0 .. MaxHead /\ (a = m - 1 \/ a \in 0 .. (m - 1) - 1)
          BY <1>1
        <4>2. TimeOf[a] \in Nat /\ TimeOf[m - 1] \in Nat /\ TimeOf[m] \in Nat
          BY <1>1, <3>1, <4>1
        <4> QED
          BY <3>2, <3>3, <4>1, <4>2
      <3> QED
        BY <3>4
    <2> QED
      BY <2>1, <2>2
  <1>3. T = {}
    <2>1. T \subseteq 0 .. MaxHead /\ 0 \in Nat
      OBVIOUS
    <2> HIDE DEF T
    <2> QED
      BY <1>1, <1>2, <2>1, NoFirst
  <1> HIDE DEF Grows
  <1>4. \A b \in 0 .. MaxHead : Grows(b)
    BY <1>3
  <1> QED
    BY <1>4 DEF Grows

Searches(f, time, latest) ==
  f = [r \in (0 .. latest + 1) \X (0 .. latest) |->
         LET low == r[1]
             high == r[2]
             mid == low + (high - low) \div 2
         IN IF low > high THEN high
            ELSE IF TimeOf[mid] = time THEN mid
            ELSE IF TimeOf[mid] < time THEN f[<<mid + 1, high>>]
            ELSE IF mid = 0 THEN 0 ELSE f[<<low, mid - 1>>]]

LEMMA Middle ==
  ASSUME NEW low \in Nat, NEW high \in Nat, low <= high
  PROVE  LET mid == low + (high - low) \div 2
         IN mid \in Nat /\ low <= mid /\ mid <= high
  OBVIOUS

LEMMA SearchUnfold ==
  ASSUME NEW time \in Nat, NEW latest \in Nat
  PROVE  \E f \in [(0 .. latest + 1) \X (0 .. latest) -> 0 .. latest] :
           Searches(f, time, latest) /\ block_at_timestamp(time, latest) = f[<<0, latest>>]
  <1> DEFINE D == (0 .. latest + 1) \X (0 .. latest)
             X == 0 .. latest
             Mid(r) == r[1] + (r[2] - r[1]) \div 2
             Body(r, f) == IF r[1] > r[2] THEN r[2]
                           ELSE IF TimeOf[Mid(r)] = time THEN Mid(r)
                           ELSE IF TimeOf[Mid(r)] < time THEN f[<<Mid(r) + 1, r[2]>>]
                           ELSE IF Mid(r) = 0 THEN 0 ELSE f[<<r[1], Mid(r) - 1>>]
             mu == [r \in D |-> IF r[1] > r[2] THEN 0 ELSE r[2] - r[1] + 1]
             H == [p \in D \X [D -> X] |-> Body(p[1], p[2])]
  <1>1. ASSUME NEW r \in D
        PROVE  /\ r[1] \in 0 .. latest + 1 /\ r[2] \in 0 .. latest
               /\ mu[r] \in 0 .. latest + 1
               /\ ~(r[1] > r[2]) =>
                    /\ Mid(r) \in X
                    /\ <<Mid(r) + 1, r[2]>> \in D
                    /\ mu[<<Mid(r) + 1, r[2]>>] < mu[r]
                    /\ Mid(r) # 0 => /\ <<r[1], Mid(r) - 1>> \in D
                                     /\ mu[<<r[1], Mid(r) - 1>>] < mu[r]
    <2>1. r[1] \in 0 .. latest + 1 /\ r[2] \in 0 .. latest
      OBVIOUS
    <2>2. mu[r] = IF r[1] > r[2] THEN 0 ELSE r[2] - r[1] + 1
      OBVIOUS
    <2>3. ASSUME ~(r[1] > r[2])
          PROVE  /\ Mid(r) \in X
                 /\ <<Mid(r) + 1, r[2]>> \in D
                 /\ mu[<<Mid(r) + 1, r[2]>>] < mu[r]
                 /\ Mid(r) # 0 => /\ <<r[1], Mid(r) - 1>> \in D
                                  /\ mu[<<r[1], Mid(r) - 1>>] < mu[r]
      <3> DEFINE m == Mid(r)
      <3>1. m \in Nat /\ r[1] <= m /\ m <= r[2]
        BY <2>1, <2>3, Middle
      <3> HIDE DEF m
      <3>2. m \in X /\ <<m + 1, r[2]>> \in D /\ (m # 0 => <<r[1], m - 1>> \in D)
        BY <2>1, <3>1
      <3>3. mu[<<m + 1, r[2]>>] < mu[r]
        BY <2>1, <2>2, <2>3, <3>1, <3>2
      <3>4. m # 0 => mu[<<r[1], m - 1>>] < mu[r]
        BY <2>1, <2>2, <2>3, <3>1, <3>2
      <3> QED
        BY <3>2, <3>3, <3>4 DEF m
    <2> HIDE DEF Mid, mu
    <2> QED
      BY <2>1, <2>2, <2>3
  <1>2. mu \in [D -> 0 .. latest + 1]
    BY <1>1
  <1>3. \A r \in D, f \in [D -> X] : Body(r, f) \in X
    <2> SUFFICES ASSUME NEW r \in D, NEW f \in [D -> X] PROVE Body(r, f) \in X
      OBVIOUS
    <2> HIDE DEF Mid, mu, D
    <2> QED
      BY <1>1
  <1>4. H \in [D \X [D -> X] -> X] /\ \A r \in D, f \in [D -> X] : H[<<r, f>>] = Body(r, f)
    <2> HIDE DEF Body, D, X
    <2> QED
      BY <1>3
  <1>5. OnlySmaller(D, X, mu, H)
    <2> SUFFICES ASSUME NEW d \in D, NEW f \in [D -> X], NEW g \in [D -> X],
                        \A e \in D : mu[e] < mu[d] => f[e] = g[e]
                 PROVE  H[<<d, f>>] = H[<<d, g>>]
      BY DEF OnlySmaller
    <2>1. Body(d, f) = Body(d, g)
      <3> HIDE DEF Mid, mu, D, X
      <3> QED
        BY <1>1
    <2> HIDE DEF Body, D, X, H
    <2> QED
      BY <1>4, <2>1
  <1>6. PICK f \in [D -> X] : \A d \in D : f[d] = H[<<d, f>>]
    <2>1. 0 \in X /\ latest + 1 \in Nat
      OBVIOUS
    <2> HIDE DEF D, X, mu, H
    <2>2. Recursive(D, X, H) # {}
      BY <1>2, <1>4, <1>5, <2>1, MeasureRecursion
    <2> QED
      BY <2>2 DEF Recursive
  <1>7. \A d \in D : f[d] = Body(d, f)
    <2> HIDE DEF Body, D, X, H
    <2> QED
      BY <1>4, <1>6
  <1>8. Searches(f, time, latest)
    <2>1. f = [r \in D |-> Body(r, f)]
      <3> HIDE DEF Body, D, X
      <3> QED
        BY <1>7
    <2> QED
      BY <2>1 DEF Searches
  <1>9. ASSUME NEW g, Searches(g, time, latest) PROVE g = f
    <2>1. g = [r \in D |-> Body(r, g)]
      BY <1>9 DEF Searches
    <2> DEFINE Same(k) == \A r \in D : mu[r] <= k => g[r] = f[r]
               T == {k \in 0 .. latest + 1 : ~Same(k)}
    <2>2. ASSUME NEW k \in 0 .. latest + 1, k # 0 => k - 1 \notin T PROVE k \notin T
      <3> SUFFICES ASSUME NEW r \in D, mu[r] <= k PROVE g[r] = f[r]
        OBVIOUS
      <3>1. \A e \in D : mu[e] < mu[r] => g[e] = f[e]
        <4> SUFFICES ASSUME NEW e \in D, mu[e] < mu[r] PROVE g[e] = f[e]
          OBVIOUS
        <4>1. mu[e] \in Nat /\ mu[r] \in Nat
          BY <1>1
        <4> HIDE DEF mu, D
        <4>2. k # 0 /\ k - 1 \in 0 .. latest + 1 /\ mu[e] <= k - 1
          BY <4>1
        <4> QED
          BY <2>2, <4>2
      <3>2. Body(r, g) = Body(r, f)
        <4> HIDE DEF Mid, mu, D, X
        <4> QED
          BY <1>1, <3>1
      <3> HIDE DEF Body, D
      <3> QED
        BY <1>7, <2>1, <3>2
    <2>3. T = {}
      <3>1. T \subseteq 0 .. latest + 1 /\ 0 \in Nat /\ latest + 1 \in Nat
        OBVIOUS
      <3> HIDE DEF T
      <3> QED
        BY <2>2, <3>1, NoFirst
    <2>4. Same(latest + 1)
      <3>1. latest + 1 \in 0 .. latest + 1
        OBVIOUS
      <3> HIDE DEF Same
      <3> QED
        BY <2>3, <3>1
    <2>5. \A r \in D : g[r] = f[r]
      <3> TAKE r \in D
      <3>1. mu[r] \in 0 .. latest + 1
        BY <1>1
      <3> HIDE DEF mu, D
      <3> QED
        BY <2>4, <3>1
    <2> HIDE DEF Body, D
    <2> QED
      BY <2>1, <2>5
  <1>10. block_at_timestamp(time, latest) = (CHOOSE g : Searches(g, time, latest))[<<0, latest>>]
    BY DEF block_at_timestamp, Searches
  <1>11. (CHOOSE g : Searches(g, time, latest)) = f
    <2>1. Searches(CHOOSE g : Searches(g, time, latest), time, latest)
      BY <1>8
    <2> QED
      BY <1>9, <2>1
  <1> QED
    BY <1>8, <1>10, <1>11

(* block_at_timestamp finds the last block that is not after the time.     *)
LEMMA SearchFinds ==
  ASSUME NEW time \in Nat, NEW latest \in 0 .. MaxHead
  PROVE  /\ block_at_timestamp(time, latest) \in 0 .. latest
         /\ DistinctTimes => BlockAt(block_at_timestamp(time, latest), time, latest)
  <1>1. MaxHead \in Nat /\ latest \in Nat /\ \A b \in 0 .. latest : TimeOf[b] \in Nat
    BY ChainAssumption
  <1>2. PICK f \in [(0 .. latest + 1) \X (0 .. latest) -> 0 .. latest] :
          Searches(f, time, latest) /\ block_at_timestamp(time, latest) = f[<<0, latest>>]
    BY <1>1, SearchUnfold
  <1>3. f[<<0, latest>>] \in 0 .. latest
    BY <1>1
  <1>4. ASSUME DistinctTimes PROVE BlockAt(f[<<0, latest>>], time, latest)
    <2> DEFINE Between(low, high) ==
                 /\ low <= high + 1
                 /\ \A b \in 0 .. latest : b < low => TimeOf[b] < time
                 /\ \A b \in 0 .. latest : b > high => TimeOf[b] > time
               Right(k) == \A low \in 0 .. latest + 1, high \in 0 .. latest :
                 high - low + 1 <= k /\ Between(low, high) => BlockAt(f[<<low, high>>], time, latest)
               T == {k \in 0 .. latest + 1 : ~Right(k)}
    <2>1. \A a, b \in 0 .. latest : a < b => TimeOf[a] < TimeOf[b]
      <3> SUFFICES ASSUME NEW a \in 0 .. latest, NEW b \in 0 .. latest, a < b
                   PROVE  TimeOf[a] < TimeOf[b]
        OBVIOUS
      <3>1. b \in 0 .. MaxHead /\ a \in 0 .. b - 1
        BY <1>1
      <3> QED
        BY <1>4, <3>1, TimesIncrease
    <2>2. ASSUME NEW low \in 0 .. latest + 1, NEW high \in 0 .. latest
          PROVE  LET mid == low + (high - low) \div 2
                 IN f[<<low, high>>] =
                      IF low > high THEN high
                      ELSE IF TimeOf[mid] = time THEN mid
                      ELSE IF TimeOf[mid] < time THEN f[<<mid + 1, high>>]
                      ELSE IF mid = 0 THEN 0 ELSE f[<<low, mid - 1>>]
      <3>1. <<low, high>> \in (0 .. latest + 1) \X (0 .. latest)
        OBVIOUS
      <3> QED
        BY <1>2, <3>1 DEF Searches
    <2>3. ASSUME NEW k \in 0 .. latest + 1, k # 0 => k - 1 \notin T PROVE k \notin T
      <3> SUFFICES ASSUME NEW low \in 0 .. latest + 1, NEW high \in 0 .. latest,
                          high - low + 1 <= k, Between(low, high)
                   PROVE  BlockAt(f[<<low, high>>], time, latest)
        OBVIOUS
      <3>1. CASE low > high
        <4>1. f[<<low, high>>] = high /\ high < low
          BY <2>2, <3>1
        <4> QED
          BY <1>1, <4>1 DEF BlockAt
      <3>2. CASE ~(low > high)
        <4> DEFINE mid == low + (high - low) \div 2
        <4>1. mid \in Nat /\ low <= mid /\ mid <= high
          BY <3>2, Middle
        <4>2. f[<<low, high>>] = IF TimeOf[mid] = time THEN mid
                                ELSE IF TimeOf[mid] < time THEN f[<<mid + 1, high>>]
                                ELSE IF mid = 0 THEN 0 ELSE f[<<low, mid - 1>>]
          BY <2>2, <3>2
        <4> HIDE DEF mid
        <4>3. mid \in 0 .. latest /\ TimeOf[mid] \in Nat
          BY <1>1, <4>1
        <4>4. k # 0 /\ k - 1 \in 0 .. latest + 1
          BY <1>1, <3>2
        <4>5. Right(k - 1)
          <5> HIDE DEF Right
          <5> QED
            BY <2>3, <4>4
        <4>6. CASE TimeOf[mid] = time
          BY <2>1, <4>2, <4>3, <4>6 DEF BlockAt
        <4>7. CASE TimeOf[mid] < time
          <5>1. \A b \in 0 .. latest : b < mid + 1 => TimeOf[b] < time
            <6> SUFFICES ASSUME NEW b \in 0 .. latest, b < mid + 1 PROVE TimeOf[b] < time
              OBVIOUS
            <6>1. b = mid \/ b < mid
              BY <4>3
            <6>2. TimeOf[b] \in Nat
              BY <1>1
            <6> QED
              BY <2>1, <4>3, <4>7, <6>1, <6>2
          <5>2. mid + 1 \in 0 .. latest + 1 /\ high - (mid + 1) + 1 <= k - 1 /\ mid + 1 <= high + 1
            BY <4>1, <4>3
          <5>3. Between(mid + 1, high)
            BY <5>1, <5>2
          <5>4. BlockAt(f[<<mid + 1, high>>], time, latest)
            <6> HIDE DEF Between
            <6> QED
              BY <4>5, <5>2, <5>3
          <5>5. f[<<low, high>>] = f[<<mid + 1, high>>]
            BY <4>2, <4>3, <4>7
          <5> QED
            BY <5>4, <5>5
        <4>8. CASE ~(TimeOf[mid] = time) /\ ~(TimeOf[mid] < time)
          <5>1. \A b \in 0 .. latest : b >= mid => TimeOf[b] > time
            <6> SUFFICES ASSUME NEW b \in 0 .. latest, b >= mid PROVE TimeOf[b] > time
              OBVIOUS
            <6>1. b = mid \/ mid < b
              BY <4>3
            <6>2. TimeOf[b] \in Nat
              BY <1>1
            <6> QED
              BY <2>1, <4>3, <4>8, <6>1, <6>2
          <5>2. CASE mid = 0
            <6>1. f[<<low, high>>] = 0
              BY <4>2, <4>8, <5>2
            <6> QED
              BY <1>1, <5>1, <5>2, <6>1 DEF BlockAt
          <5>3. CASE mid # 0
            <6>1. mid - 1 \in 0 .. latest /\ (mid - 1) - low + 1 <= k - 1 /\ low <= (mid - 1) + 1
              BY <4>1, <4>3, <5>3
            <6>2. Between(low, mid - 1)
              BY <4>3, <5>1, <6>1
            <6>3. BlockAt(f[<<low, mid - 1>>], time, latest)
              <7> HIDE DEF Between
              <7> QED
                BY <4>5, <6>1, <6>2
            <6>4. f[<<low, high>>] = f[<<low, mid - 1>>]
              BY <4>2, <4>8, <5>3
            <6> QED
              BY <6>3, <6>4
          <5> QED
            BY <5>2, <5>3
        <4> QED
          BY <4>6, <4>7, <4>8
      <3> QED
        BY <3>1, <3>2
    <2>4. T = {}
      <3>1. T \subseteq 0 .. latest + 1 /\ 0 \in Nat /\ latest + 1 \in Nat
        BY <1>1
      <3> HIDE DEF T
      <3> QED
        BY <2>3, <3>1, NoFirst
    <2>5. Right(latest + 1)
      <3>1. latest + 1 \in 0 .. latest + 1
        BY <1>1
      <3> HIDE DEF Right
      <3> QED
        BY <2>4, <3>1
    <2>6. Between(0, latest) /\ 0 \in 0 .. latest + 1 /\ latest \in 0 .. latest /\ latest - 0 + 1 <= latest + 1
      BY <1>1
    <2> HIDE DEF Between
    <2> QED
      BY <2>5, <2>6
  <1> QED
    BY <1>2, <1>3, <1>4
-----------------------------------------------------------------------------
(* Cutting                                                                 *)

Keeps(f, cs, m) ==
  f = [i \in 0 .. Len(cs) |->
         IF i = 0 THEN <<>>
         ELSE IF old_enough(cs[i], m) THEN Append(f[i - 1], cs[i])
         ELSE f[i - 1]]

Old(m) == {c \in NumberChunk : old_enough(c, m)}

(* What the filter of apply_reorg_buffer lets through is old enough.       *)
LEMMA FilterOld ==
  ASSUME NEW cs \in Seq(NumberChunk), NEW m \in Nat
  PROVE  filter_old(cs, m) \in Seq(Old(m))
  <1> DEFINE n == Len(cs)
             D == 0 .. n
             X == Seq(Old(m))
             Body(i, f) == IF i = 0 THEN <<>>
                           ELSE IF old_enough(cs[i], m) THEN Append(f[i - 1], cs[i])
                           ELSE f[i - 1]
             mu == [i \in D |-> i]
             H == [p \in D \X [D -> X] |-> Body(p[1], p[2])]
  <1>1. n \in Nat /\ <<>> \in X /\ mu \in [D -> 0 .. n] /\ n \in D
    OBVIOUS
  <1>2. \A i \in D : i # 0 => i - 1 \in D /\ i - 1 < i /\ cs[i] \in NumberChunk
    BY <1>1
  <1>3. ASSUME NEW i \in D, NEW f, i # 0 => f[i - 1] \in X PROVE Body(i, f) \in X
    <2>1. CASE i = 0
      BY <1>1, <2>1
    <2>2. CASE i # 0 /\ old_enough(cs[i], m)
      <3>1. cs[i] \in Old(m) /\ f[i - 1] \in Seq(Old(m))
        BY <1>2, <1>3, <2>2 DEF Old
      <3> QED
        BY <2>2, <3>1
    <2>3. CASE i # 0 /\ ~old_enough(cs[i], m)
      BY <1>3, <2>3
    <2> QED
      BY <2>1, <2>2, <2>3
  <1> HIDE DEF X
  <1>4. H \in [D \X [D -> X] -> X] /\ \A i \in D, f \in [D -> X] : H[<<i, f>>] = Body(i, f)
    <2>1. \A i \in D, f \in [D -> X] : Body(i, f) \in X
      <3> SUFFICES ASSUME NEW i \in D, NEW f \in [D -> X] PROVE Body(i, f) \in X
        OBVIOUS
      <3>1. i # 0 => f[i - 1] \in X
        BY <1>2
      <3> HIDE DEF Body, D
      <3> QED
        BY <1>3, <3>1
    <2> HIDE DEF Body, D
    <2> QED
      BY <2>1
  <1>5. OnlySmaller(D, X, mu, H)
    <2> SUFFICES ASSUME NEW d \in D, NEW f \in [D -> X], NEW g \in [D -> X],
                        \A e \in D : mu[e] < mu[d] => f[e] = g[e]
                 PROVE  H[<<d, f>>] = H[<<d, g>>]
      BY DEF OnlySmaller
    <2>1. d # 0 => f[d - 1] = g[d - 1]
      BY <1>2
    <2>2. Body(d, f) = Body(d, g)
      BY <2>1
    <2> HIDE DEF H, D, Body
    <2> QED
      BY <1>4, <2>2
  <1>6. PICK f \in [D -> X] : \A d \in D : f[d] = H[<<d, f>>]
    <2> HIDE DEF D, mu, H, n
    <2>1. Recursive(D, X, H) # {}
      BY <1>1, <1>4, <1>5, MeasureRecursion
    <2> QED
      BY <2>1 DEF Recursive
  <1>7. Keeps(f, cs, m)
    <2>1. f = [i \in D |-> Body(i, f)]
      <3> HIDE DEF Body, D, H
      <3> QED
        BY <1>4, <1>6
    <2> QED
      BY <2>1 DEF Keeps
  <1>8. PICK g : Keeps(g, cs, m) /\ filter_old(cs, m) = g[n]
    <2>1. filter_old(cs, m) = (CHOOSE g : Keeps(g, cs, m))[n]
      BY DEF filter_old, Keeps
    <2>2. Keeps(CHOOSE g : Keeps(g, cs, m), cs, m)
      BY <1>7
    <2> QED
      BY <2>1, <2>2
  <1>9. g = [i \in D |-> Body(i, g)]
    BY <1>8 DEF Keeps
  <1> DEFINE T == {i \in D : g[i] \notin X}
  <1>10. ASSUME NEW i \in D, i # 0 => i - 1 \notin T PROVE i \notin T
    <2>1. i # 0 => g[i - 1] \in X
      BY <1>2, <1>10
    <2>2. g[i] = Body(i, g)
      <3> HIDE DEF Body, D
      <3> QED
        BY <1>9
    <2>3. Body(i, g) \in X
      <3> HIDE DEF Body, D
      <3> QED
        BY <1>3, <2>1
    <2> HIDE DEF Body, D
    <2> QED
      BY <2>2, <2>3
  <1>11. T = {}
    <2>1. T \subseteq 0 .. n /\ 0 \in Nat
      OBVIOUS
    <2> HIDE DEF T, n
    <2> QED
      BY <1>1, <1>10, <2>1, NoFirst
  <1>12. g[n] \in X
    <2> HIDE DEF D, n
    <2> QED
      BY <1>1, <1>11
  <1> QED
    BY <1>8, <1>12 DEF X

Span == {p \in Nat \X Nat : p[1] <= p[2]}

(* r is start .. end, cut into spans that follow one another and start     *)
(* whole chunks apart.                                                     *)
Run(r, start, end, chunk_size) ==
  /\ r \in Seq(Span) /\ Len(r) # 0
  /\ r[1][1] = start /\ r[Len(r)][2] = end
  /\ \A i \in 1 .. Len(r) : start <= r[i][1] /\ r[i][2] <= end
  /\ \A i \in 2 .. Len(r) : r[i][1] = r[i - 1][2] + 1
  /\ \A i \in 1 .. Len(r) : \E k \in Nat : r[i][1] = start + k * chunk_size

LEMMA RunOne ==
  ASSUME NEW s \in Nat, NEW e \in Nat, s <= e, NEW chunk_size \in Nat
  PROVE  Run(<<<<s, e>>>>, s, e, chunk_size)
  <1> DEFINE p == <<s, e>>
             r == <<p>>
  <1>1. p \in Span /\ p[1] = s /\ p[2] = e
    BY DEF Span
  <1> HIDE DEF p
  <1>2. r \in Seq(Span) /\ Len(r) = 1 /\ r[1] = p
    BY <1>1
  <1> HIDE DEF r
  <1>3. 0 \in Nat /\ s = s + 0 * chunk_size
    OBVIOUS
  <1>4. \A i \in 1 .. Len(r) : i = 1
    BY <1>2
  <1>5. 2 .. Len(r) = {}
    BY <1>2
  <1>6. \A i \in 1 .. Len(r) : /\ s <= r[i][1] /\ r[i][2] <= e
                               /\ \E k \in Nat : r[i][1] = s + k * chunk_size
    BY <1>1, <1>2, <1>3, <1>4
  <1>7. Run(r, s, e, chunk_size)
    BY <1>1, <1>2, <1>5, <1>6 DEF Run
  <1> QED
    BY <1>7 DEF r, p

LEMMA RunExtends ==
  ASSUME NEW s \in Nat, NEW e \in Nat, NEW chunk_size \in Nat \ {0},
         NEW r, Run(r, s + chunk_size, e, chunk_size)
  PROVE  Run(<<<<s, s + chunk_size - 1>>>> \o r, s, e, chunk_size)
  <1> DEFINE p == <<s, s + chunk_size - 1>>
             t == <<p>> \o r
             n == Len(r)
  <1>1. /\ p \in Span /\ p[1] = s /\ p[2] = s + chunk_size - 1 /\ p[2] + 1 = s + chunk_size
    BY DEF Span
  <1>2. r \in Seq(Span) /\ n # 0
    BY DEF Run
  <1> HIDE DEF p
  <1>3. /\ t \in Seq(Span) /\ Len(t) = n + 1 /\ n \in Nat \ {0} /\ t[1] = p
        /\ \A i \in 2 .. n + 1 : t[i] = r[i - 1]
    <2>1. <<p>> \in Seq(Span) /\ Len(<<p>>) = 1 /\ <<p>>[1] = p
      BY <1>1
    <2> QED
      BY <1>2, <2>1
  <1> HIDE DEF t
  <1>4. \A i \in 1 .. n : r[i] \in Span /\ r[i][1] \in Nat /\ r[i][2] \in Nat
    BY <1>2 DEF Span
  <1>5. /\ r[1][1] = s + chunk_size /\ r[n][2] = e
        /\ \A i \in 1 .. n : s + chunk_size <= r[i][1] /\ r[i][2] <= e /\ r[i][1] <= r[i][2]
        /\ \A i \in 2 .. n : r[i][1] = r[i - 1][2] + 1
    BY <1>4, Zenon DEF Run, Span
  <1>6. s + chunk_size <= e /\ s + chunk_size - 1 <= e
    <2>1. 1 \in 1 .. n
      BY <1>3
    <2> QED
      BY <1>4, <1>5, <2>1
  <1>7. t[1][1] = s /\ t[Len(t)][2] = e
    <2>1. n + 1 \in 2 .. n + 1 /\ n + 1 - 1 = n
      BY <1>3
    <2>2. t[n + 1] = r[n]
      BY <1>3, <2>1
    <2> QED
      BY <1>1, <1>3, <1>5, <2>2
  <1>8. ASSUME NEW i \in 1 .. Len(t)
        PROVE  /\ s <= t[i][1] /\ t[i][2] <= e
               /\ \E k \in Nat : t[i][1] = s + k * chunk_size
    <2>1. CASE i = 1
      <3>1. s = s + 0 * chunk_size /\ 0 \in Nat /\ s <= s
        OBVIOUS
      <3> QED
        BY <1>1, <1>3, <1>6, <2>1, <3>1
    <2>2. CASE i # 1
      <3>1. i \in 2 .. n + 1 /\ i - 1 \in 1 .. n
        BY <1>3, <2>2
      <3>2. t[i] = r[i - 1]
        BY <1>3, <3>1
      <3>3. PICK k \in Nat : r[i - 1][1] = s + chunk_size + k * chunk_size
        BY <3>1, Zenon DEF Run
      <3>4. s + chunk_size + k * chunk_size = s + (k + 1) * chunk_size /\ k + 1 \in Nat
        OBVIOUS
      <3>5. s <= r[i - 1][1] /\ r[i - 1][2] <= e
        BY <1>4, <1>5, <3>1
      <3> QED
        BY <3>2, <3>3, <3>4, <3>5
    <2> QED
      BY <2>1, <2>2
  <1>9. ASSUME NEW i \in 2 .. Len(t) PROVE t[i][1] = t[i - 1][2] + 1
    <2>1. i \in 2 .. n + 1 /\ t[i] = r[i - 1]
      BY <1>3
    <2>2. CASE i = 2
      <3>1. i - 1 = 1
        BY <2>2
      <3> QED
        BY <1>1, <1>3, <1>5, <2>1, <3>1
    <2>3. CASE i # 2
      <3>1. i - 1 \in 2 .. n + 1 /\ i - 1 \in 2 .. n
        BY <1>3, <2>1, <2>3
      <3>2. t[i - 1] = r[i - 1 - 1] /\ r[i - 1][1] = r[i - 1 - 1][2] + 1
        BY <1>3, <1>5, <3>1
      <3> QED
        BY <2>1, <3>2
    <2> QED
      BY <2>2, <2>3
  <1>10. Run(t, s, e, chunk_size)
    <2>1. t \in Seq(Span) /\ Len(t) # 0
      BY <1>3
    <2> QED
      BY <1>7, <1>8, <1>9, <2>1, Zenon DEF Run
  <1> QED
    BY <1>10 DEF t, p

(* The blocks of the spans of a run, put together, are those of the range. *)
LEMMA RunValues ==
  ASSUME NEW start \in Nat, NEW end \in Nat, start <= end, NEW chunk_size \in Nat,
         NEW r, Run(r, start, end, chunk_size)
  PROVE  FlattenSeq([i \in DOMAIN r |-> values(BlockRange(r[i][1], r[i][2]))])
           = values(BlockRange(start, end))
  <1> DEFINE s == values(BlockRange(start, end))
             n == Len(r)
             part(i) == values(BlockRange(r[i][1], r[i][2]))
             parts == [i \in 1 .. n |-> part(i)]
             cut == [i \in 0 .. n |-> IF i = 0 THEN 0 ELSE r[i][2] - start + 1]
  <1>1. r \in Seq(Span) /\ n \in Nat \ {0} /\ DOMAIN r = 1 .. n
    BY DEF Run
  <1>2. /\ s \in Seq(Nat) /\ Len(s) = end - start + 1
        /\ \A i \in 1 .. end - start + 1 : s[i] = start + i - 1
    BY RangeChunk
  <1>3. ASSUME NEW i \in 1 .. n
        PROVE  /\ r[i][1] \in Nat /\ r[i][2] \in Nat /\ r[i][1] <= r[i][2]
               /\ start <= r[i][1] /\ r[i][2] <= end
    <2>1. r[i] \in Span
      BY <1>1
    <2>2. r[i][1] \in Nat /\ r[i][2] \in Nat /\ r[i][1] <= r[i][2]
      BY <2>1 DEF Span
    <2> QED
      BY <2>2, Zenon DEF Run
  <1>4. ASSUME NEW i \in 1 .. n
        PROVE  /\ part(i) \in Seq(Nat) /\ Len(part(i)) = r[i][2] - r[i][1] + 1
               /\ \A j \in 1 .. r[i][2] - r[i][1] + 1 : part(i)[j] = r[i][1] + j - 1
    BY <1>3, RangeChunk
  <1> HIDE DEF s, part
  <1>5. cut \in [0 .. n -> 0 .. Len(s)]
    <2>1. \A i \in 0 .. n : i # 0 => i \in 1 .. n
      BY <1>1
    <2>2. \A i \in 1 .. n : r[i][2] - start + 1 \in 0 .. end - start + 1
      BY <1>3
    <2>3. 0 \in 0 .. end - start + 1
      OBVIOUS
    <2> HIDE DEF n
    <2> QED
      BY <1>2, <2>1, <2>2, <2>3
  <1>6. ASSUME NEW i \in 1 .. n PROVE cut[i - 1] = r[i][1] - start /\ cut[i] = r[i][2] - start + 1
    <2>1. i \in 0 .. n /\ i - 1 \in 0 .. n /\ i # 0
      BY <1>1
    <2>2. CASE i = 1
      <3>1. r[1][1] = start
        BY DEF Run
      <3> QED
        BY <2>1, <2>2, <3>1
    <2>3. CASE i # 1
      <3>1. i \in 2 .. n /\ i - 1 \in 1 .. n /\ i - 1 # 0
        BY <1>1, <2>3
      <3>2. r[i][1] = r[i - 1][2] + 1
        BY <3>1, Zenon DEF Run
      <3>3. cut[i - 1] = r[i - 1][2] - start + 1 /\ cut[i] = r[i][2] - start + 1
        BY <2>1, <3>1
      <3>4. r[i - 1][2] \in Nat
        BY <1>3, <3>1
      <3> HIDE DEF cut
      <3> QED
        BY <3>2, <3>3, <3>4
    <2> QED
      BY <2>2, <2>3
  <1>7. cut[0] = 0 /\ cut[n] = Len(s)
    <2>1. 0 \in 0 .. n /\ n \in 1 .. n
      BY <1>1
    <2>2. r[n][2] = end
      BY DEF Run
    <2> QED
      BY <1>2, <1>6, <2>1, <2>2
  <1> HIDE DEF cut
  <1>8. ASSUME NEW i \in 1 .. n
        PROVE  cut[i - 1] <= cut[i] /\ part(i) = SubSeq(s, cut[i - 1] + 1, cut[i])
    <2> DEFINE a == cut[i - 1]
               b == cut[i]
               q == part(i)
    <2>1. /\ a = r[i][1] - start /\ b = r[i][2] - start + 1 /\ a \in Nat /\ b \in Nat
          /\ a <= b /\ b <= end - start + 1 /\ b - a = r[i][2] - r[i][1] + 1
      <3> DEFINE x == r[i][1]
                 y == r[i][2]
      <3>1. /\ x \in Nat /\ y \in Nat /\ x <= y /\ start <= x /\ y <= end
            /\ a = x - start /\ b = y - start + 1
        BY <1>3, <1>6, Zenon
      <3> HIDE DEF x, y, a, b
      <3>2. a \in Nat /\ b \in Nat /\ a <= b /\ b <= end - start + 1 /\ b - a = y - x + 1
        BY <3>1
      <3> QED
        BY <3>1, <3>2, Zenon DEF x, y
    <2>2. q \in Seq(Nat) /\ Len(q) = b - a
      BY <1>4, <2>1
    <2>3. ASSUME NEW j \in 1 .. b - a PROVE q[j] = s[a + j]
      <3>1. q[j] = r[i][1] + j - 1
        BY <1>4, <2>1
      <3>2. a \in Nat /\ b \in Nat /\ b <= end - start + 1
        BY <2>1
      <3> DEFINE x == r[i][1]
      <3>3. x \in Nat /\ a = x - start /\ q[j] = x + j - 1
        BY <1>3, <2>1, <3>1, Zenon
      <3> HIDE DEF a, b, x, q
      <3>4. a + j \in 1 .. end - start + 1
        BY <3>2
      <3>5. s[a + j] = start + (a + j) - 1
        BY <1>2, <3>4
      <3>6. start + (a + j) - 1 = x + j - 1
        BY <3>3
      <3> QED
        BY <3>3, <3>5, <3>6
    <2> HIDE DEF a, b, q
    <2>4. q = SubSeq(s, a + 1, b)
      <3> DEFINE u == SubSeq(s, a + 1, b)
      <3>1. /\ u \in Seq(Nat) /\ Len(u) = b - a
            /\ \A j \in 1 .. b - a : u[j] = s[a + j]
        <4>1. a \in Nat /\ b \in 0 .. Len(s) /\ a <= b /\ s \in Seq(Nat)
          BY <1>2, <2>1
        <4>2. \A j \in a + 1 .. b : s[j] \in Nat
          BY <4>1
        <4>3. /\ u \in Seq(Nat) /\ Len(u) = IF a + 1 <= b THEN b - (a + 1) + 1 ELSE 0
              /\ \A j \in 1 .. b - (a + 1) + 1 : u[j] = s[a + 1 + j - 1]
          BY <4>1, <4>2, SubSeqProperties
        <4> HIDE DEF u
        <4>4. \A j \in 1 .. b - a : j \in 1 .. b - (a + 1) + 1 /\ a + 1 + j - 1 = a + j
          BY <4>1
        <4> QED
          BY <4>1, <4>3, <4>4
      <3> HIDE DEF u
      <3>2. \A j \in 1 .. b - a : q[j] = u[j]
        BY <2>3, <3>1
      <3>3. q = u
        BY <2>2, <3>1, <3>2, SeqEqual
      <3> QED
        BY <3>3 DEF u
    <2> QED
      BY <2>1, <2>4 DEF a, b, q
  <1>9. parts \in Seq(Seq(Nat)) /\ Len(parts) = n /\ \A i \in 1 .. n : parts[i] = part(i)
    <2>1. parts \in [1 .. n -> Seq(Nat)] /\ \A i \in 1 .. n : parts[i] = part(i)
      BY <1>4
    <2> HIDE DEF parts, n
    <2> QED
      BY <1>1, <2>1
  <1>10. FlattenSeq(parts) = s
    <2> HIDE DEF parts
    <2>1. cut \in [0 .. Len(parts) -> 0 .. Len(s)] /\ cut[0] = 0 /\ cut[Len(parts)] = Len(s)
      BY <1>5, <1>7, <1>9
    <2>2. \A i \in 1 .. Len(parts) : /\ cut[i - 1] <= cut[i]
                                     /\ parts[i] = SubSeq(s, cut[i - 1] + 1, cut[i])
      BY <1>8, <1>9
    <2> QED
      BY <1>2, <1>9, <2>1, <2>2, FlatOfCuts
  <1> QED
    BY <1>1, <1>10, Zenon DEF s, part

Cuts(f, start, end, chunk_size) ==
  f = [s \in start .. end |->
         LET e == IF s + chunk_size - 1 > end THEN end ELSE s + chunk_size - 1
         IN <<<<s, e>>>> \o (IF e = end THEN <<>> ELSE f[s + chunk_size])]

(* The loop of range_to_chunks cuts a range into a run.                    *)
LEMMA RangeToChunks ==
  ASSUME NEW start \in Nat, NEW end \in Nat, start <= end, NEW chunk_size \in Nat
  PROVE  Run(range_to_chunks(start, end, chunk_size), start, end, chunk_size)
  <1>1. CASE chunk_size = 0
    <2>1. range_to_chunks(start, end, chunk_size) = <<<<start, end>>>>
      BY <1>1 DEF range_to_chunks
    <2> QED
      BY <2>1, RunOne
  <1>2. CASE chunk_size # 0
    <2> DEFINE D == start .. end
               X == Seq(Span)
               E(s) == IF s + chunk_size - 1 > end THEN end ELSE s + chunk_size - 1
               Body(s, f) == <<<<s, E(s)>>>> \o (IF E(s) = end THEN <<>> ELSE f[s + chunk_size])
               mu == [s \in D |-> end - s]
               H == [p \in D \X [D -> X] |-> Body(p[1], p[2])]
    <2>1. end - start \in Nat /\ <<>> \in X /\ mu \in [D -> 0 .. end - start] /\ start \in D
      OBVIOUS
    <2>2. ASSUME NEW s \in D
          PROVE  /\ <<s, E(s)>> \in Span
                 /\ E(s) # end => /\ s + chunk_size \in D /\ mu[s + chunk_size] < mu[s]
                                  /\ E(s) = s + chunk_size - 1
      BY <1>2 DEF Span
    <2> HIDE DEF E
    <2>3. ASSUME NEW s \in D, NEW f, E(s) # end => f[s + chunk_size] \in X PROVE Body(s, f) \in X
      <3>1. (IF E(s) = end THEN <<>> ELSE f[s + chunk_size]) \in Seq(Span)
        BY <2>1, <2>3
      <3>2. <<<<s, E(s)>>>> \in Seq(Span)
        <4>1. <<s, E(s)>> \in Span
          BY <2>2
        <4>2. \A p \in Span : <<p>> \in Seq(Span)
          OBVIOUS
        <4> QED
          BY <4>1, <4>2
      <3> QED
        BY <3>1, <3>2
    <2>3a. ASSUME NEW s \in D, NEW f,
                  E(s) # end => Run(f[s + chunk_size], s + chunk_size, end, chunk_size)
           PROVE  Run(Body(s, f), s, end, chunk_size)
      <3>1. s \in Nat /\ s <= end
        OBVIOUS
      <3>2. CASE E(s) = end
        <4>1. <<<<s, end>>>> \o <<>> = <<<<s, end>>>>
          OBVIOUS
        <4>2. Body(s, f) = <<<<s, end>>>> \o <<>>
          BY <3>2, Zenon
        <4> QED
          BY <3>1, <4>1, <4>2, RunOne
      <3>3. CASE E(s) # end
        <4>1. E(s) = s + chunk_size - 1
          BY <2>2, <3>3
        <4>2. Body(s, f) = <<<<s, s + chunk_size - 1>>>> \o f[s + chunk_size]
          BY <3>3, <4>1, Zenon
        <4> HIDE DEF Body
        <4> QED
          BY <1>2, <2>3a, <3>1, <3>3, <4>2, RunExtends
      <3> QED
        BY <3>2, <3>3
    <2> HIDE DEF X
    <2>4. H \in [D \X [D -> X] -> X] /\ \A s \in D, f \in [D -> X] : H[<<s, f>>] = Body(s, f)
      <3>1. \A s \in D, f \in [D -> X] : Body(s, f) \in X
        <4> SUFFICES ASSUME NEW s \in D, NEW f \in [D -> X] PROVE Body(s, f) \in X
          OBVIOUS
        <4> HIDE DEF Body, D, mu
        <4>1. E(s) # end => f[s + chunk_size] \in X
          BY <2>2
        <4> QED
          BY <2>3, <4>1
      <3> HIDE DEF Body, D
      <3> QED
        BY <3>1
    <2>5. OnlySmaller(D, X, mu, H)
      <3> SUFFICES ASSUME NEW d \in D, NEW f \in [D -> X], NEW g \in [D -> X],
                          \A e \in D : mu[e] < mu[d] => f[e] = g[e]
                   PROVE  H[<<d, f>>] = H[<<d, g>>]
        BY DEF OnlySmaller
      <3>1. Body(d, f) = Body(d, g)
        <4> HIDE DEF mu, D
        <4>1. E(d) # end => f[d + chunk_size] = g[d + chunk_size]
          BY <2>2
        <4> QED
          BY <4>1
      <3> HIDE DEF H, D, Body
      <3> QED
        BY <2>4, <3>1
    <2>6. PICK f \in [D -> X] : \A d \in D : f[d] = H[<<d, f>>]
      <3> HIDE DEF D, mu, H
      <3>1. Recursive(D, X, H) # {}
        BY <2>1, <2>4, <2>5, MeasureRecursion
      <3> QED
        BY <3>1 DEF Recursive
    <2>7. Cuts(f, start, end, chunk_size)
      <3>1. f = [s \in D |-> Body(s, f)]
        <4> HIDE DEF Body, D, H
        <4> QED
          BY <2>4, <2>6
      <3> QED
        BY <3>1 DEF Cuts, E
    <2>8. PICK g : Cuts(g, start, end, chunk_size) /\ range_to_chunks(start, end, chunk_size) = g[start]
      <3>1. range_to_chunks(start, end, chunk_size) = (CHOOSE g : Cuts(g, start, end, chunk_size))[start]
        BY <1>2 DEF range_to_chunks, Cuts
      <3>2. Cuts(CHOOSE g : Cuts(g, start, end, chunk_size), start, end, chunk_size)
        BY <2>7
      <3> QED
        BY <3>1, <3>2
    <2>9. g = [s \in D |-> Body(s, g)]
      BY <2>8 DEF Cuts, E
    <2> DEFINE Good(k) == \A s \in D : mu[s] <= k => Run(g[s], s, end, chunk_size)
               T == {k \in 0 .. end - start : ~Good(k)}
    <2>10. ASSUME NEW k \in 0 .. end - start, k # 0 => k - 1 \notin T PROVE k \notin T
      <3> SUFFICES ASSUME NEW s \in D, mu[s] <= k PROVE Run(g[s], s, end, chunk_size)
        OBVIOUS
      <3>1. E(s) # end => Run(g[s + chunk_size], s + chunk_size, end, chunk_size)
        <4> SUFFICES ASSUME E(s) # end
                     PROVE  Run(g[s + chunk_size], s + chunk_size, end, chunk_size)
          OBVIOUS
        <4>1. s + chunk_size \in D /\ mu[s + chunk_size] < mu[s]
          BY <2>2
        <4>2. mu[s] \in Nat /\ mu[s + chunk_size] \in Nat
          BY <2>1, <4>1
        <4> HIDE DEF mu, D
        <4>3. k # 0 /\ k - 1 \in 0 .. end - start /\ mu[s + chunk_size] <= k - 1
          BY <4>1, <4>2
        <4> QED
          BY <2>10, <4>1, <4>3
      <3> HIDE DEF Body, D, mu
      <3>2. g[s] = Body(s, g)
        BY <2>9
      <3>3. Run(Body(s, g), s, end, chunk_size)
        BY <2>3a, <3>1
      <3> QED
        BY <3>2, <3>3
    <2>11. T = {}
      <3>1. T \subseteq 0 .. end - start /\ 0 \in Nat
        OBVIOUS
      <3> HIDE DEF T
      <3> QED
        BY <2>1, <2>10, <3>1, NoFirst
    <2>12. Run(g[start], start, end, chunk_size)
      <3>1. end - start \in 0 .. end - start /\ mu[start] <= end - start
        BY <2>1
      <3>2. Good(end - start)
        <4> HIDE DEF Good
        <4> QED
          BY <2>11, <3>1
      <3> HIDE DEF mu, D
      <3> QED
        BY <2>1, <3>1, <3>2
    <2> QED
      BY <2>8, <2>12
  <1> QED
    BY <1>1, <1>2

LEMMA LeastOfTwo ==
  ASSUME NEW a \in Nat, NEW b \in Nat
  PROVE  Min({a, b}) = IF a <= b THEN a ELSE b
  <1> DEFINE m == IF a <= b THEN a ELSE b
  <1>1. m \in {a, b} /\ \A y \in {a, b} : m <= y
    OBVIOUS
  <1>2. \A x \in {a, b} : (\A y \in {a, b} : x <= y) => x = m
    OBVIOUS
  <1> HIDE DEF m
  <1>3. Min({a, b}) = m
    BY <1>1, <1>2 DEF Min
  <1> QED
    BY <1>3 DEF m

(* The slices of slice::chunks are of numbers and, put together, the slice. *)
LEMMA SliceChunks ==
  ASSUME NEW s \in Seq(Nat), NEW n \in Nat \ {0}
  PROVE  /\ slice_chunks(s, n) \in Seq(Seq(Nat))
         /\ FlattenSeq(slice_chunks(s, n)) = s
  <1> DEFINE len == Len(s)
             count == (len + n - 1) \div n
             rest == (len + n - 1) % n
             To(i) == IF i * n <= len THEN i * n ELSE len
             cut == [i \in 0 .. count |-> To(i)]
             r == [i \in 1 .. count |-> SubSeq(s, cut[i - 1] + 1, cut[i])]
  <1>1. len \in Nat /\ len + n - 1 \in Nat
    OBVIOUS
  <1>2. count \in Nat /\ rest \in Nat /\ rest < n /\ len + n - 1 = n * count + rest
    <2> HIDE DEF len
    <2> QED
      BY <1>1, Division
  <1> HIDE DEF count, rest
  <1>3. \A a, b \in Nat : a * b \in Nat
    OBVIOUS
  <1>4. cut \in [0 .. count -> 0 .. len]
    <2>1. \A i \in 0 .. count : i * n \in Nat
      BY <1>2, <1>3
    <2> QED
      BY <1>1, <2>1
  <1>5. ASSUME NEW i \in 1 .. count
        PROVE  (i - 1) * n \in Nat /\ i * n \in Nat /\ (i - 1) * n < len /\ (i - 1) * n < i * n
    <2>1. i \in Nat /\ i - 1 \in Nat /\ count - i \in Nat
      BY <1>2
    <2>2. i * n \in Nat /\ (i - 1) * n \in Nat /\ n * (count - i) \in Nat
      BY <1>3, <2>1
    <2>3. i * n = (i - 1) * n + n
      BY <2>1
    <2>4. n * count = (i - 1) * n + n + n * (count - i)
      BY <1>2, <2>1
    <2>5. n * count \in Nat
      BY <1>2, <1>3
    <2> QED
      BY <1>1, <1>2, <2>2, <2>3, <2>4, <2>5
  <1>6. ASSUME NEW i \in 1 .. count
        PROVE  /\ i \in 0 .. count /\ i - 1 \in 0 .. count
               /\ cut[i - 1] = (i - 1) * n /\ cut[i] = Min({i * n, len}) /\ cut[i - 1] <= cut[i]
    <2>1. i \in 0 .. count /\ i - 1 \in 0 .. count
      BY <1>2
    <2>2. Min({i * n, len}) = To(i)
      BY <1>1, <1>5, LeastOfTwo
    <2>3. cut[i - 1] = To(i - 1) /\ cut[i] = To(i)
      BY <2>1
    <2>4. To(i - 1) = (i - 1) * n /\ To(i - 1) <= To(i)
      BY <1>1, <1>5
    <2> QED
      BY <2>1, <2>2, <2>3, <2>4
  <1>7. cut[0] = 0 /\ cut[count] = len
    <2>1. 0 \in 0 .. count /\ count \in 0 .. count /\ 0 * n = 0
      BY <1>2
    <2>2. count * n = n * count /\ count * n \in Nat
      BY <1>2, <1>3
    <2>3. count * n >= len
      BY <1>1, <1>2, <2>2
    <2>4. To(0) = 0 /\ To(count) = len
      BY <1>1, <2>1, <2>2, <2>3
    <2> QED
      BY <2>1, <2>4
  <1>8. slice_chunks(s, n) = r
    <2>1. slice_chunks(s, n) = [i \in 1 .. count |-> SubSeq(s, (i - 1) * n + 1, Min({i * n, len}))]
      BY Zenon DEF slice_chunks, count
    <2> HIDE DEF cut, To, len
    <2> QED
      BY <1>6, <2>1
  <1> HIDE DEF cut, To
  <1>9. r \in Seq(Seq(Nat)) /\ Len(r) = count /\ \A i \in 1 .. count : r[i] = SubSeq(s, cut[i - 1] + 1, cut[i])
    <2>1. ASSUME NEW a \in 0 .. len, NEW b \in 0 .. len PROVE SubSeq(s, a + 1, b) \in Seq(Nat)
      OBVIOUS
    <2>2. \A i \in 1 .. count : SubSeq(s, cut[i - 1] + 1, cut[i]) \in Seq(Nat)
      <3> TAKE i \in 1 .. count
      <3>1. cut[i - 1] \in 0 .. len /\ cut[i] \in 0 .. len
        BY <1>4, <1>6
      <3> QED
        BY <2>1, <3>1
    <2>3. \A i \in 1 .. count : r[i] = SubSeq(s, cut[i - 1] + 1, cut[i])
      OBVIOUS
    <2>4. r \in [1 .. count -> Seq(Nat)]
      BY <2>2
    <2> HIDE DEF r, len
    <2>5. r \in Seq(Seq(Nat)) /\ Len(r) = count
      BY <1>2, <2>4
    <2> QED
      BY <2>3, <2>5
  <1>10. FlattenSeq(r) = s
    <2> HIDE DEF r
    <2>1. \A i \in 1 .. Len(r) : /\ cut[i - 1] <= cut[i]
                                 /\ r[i] = SubSeq(s, cut[i - 1] + 1, cut[i])
      BY <1>6, <1>9
    <2>2. cut \in [0 .. Len(r) -> 0 .. Len(s)] /\ cut[0] = 0 /\ cut[Len(r)] = Len(s)
      BY <1>4, <1>7, <1>9
    <2> QED
      BY <1>9, <2>1, <2>2, FlatOfCuts
  <1> QED
    BY <1>8, <1>9, <1>10, Zenon

(* out is c cut up: the same blocks in the same order, ranges whole chunks *)
(* away from the start of c.                                               *)
CutUp(out, c, chunk_size) ==
  /\ out \in Seq(NumberChunk)
  /\ chunk_values(out) = values(c)
  /\ \A i \in DOMAIN out : out[i].kind = "range" =>
       c.kind = "range" /\ \E k \in Nat : out[i].from = c.from + k * chunk_size

LEMMA SubchunkBySize ==
  ASSUME NEW c \in NumberChunk, NEW chunk_size \in Nat, subchunk_by_size(c, chunk_size).ok
  PROVE  CutUp(subchunk_by_size(c, chunk_size).val, c, chunk_size)
  <1> DEFINE out == subchunk_by_size(c, chunk_size).val
  <1>1. CASE c.kind = "range"
    <2>1. c.from \in Nat /\ c.to \in Nat /\ c.from <= c.to
      BY <1>1 DEF NumberChunk
    <2> DEFINE r == range_to_chunks(c.from, c.to, chunk_size)
               part(i) == BlockRange(r[i][1], r[i][2])
    <2>2. Run(r, c.from, c.to, chunk_size)
      BY <2>1, RangeToChunks
    <2>3. out = [i \in DOMAIN r |-> part(i)]
      BY <1>1 DEF subchunk_by_size, Ok
    <2> HIDE DEF r, out
    <2>4. r \in Seq(Span) /\ DOMAIN r = 1 .. Len(r) /\ Len(r) \in Nat
      BY <2>2 DEF Run
    <2>5. ASSUME NEW i \in DOMAIN r
          PROVE  part(i) \in NumberChunk /\ part(i).from = r[i][1]
      <3>1. r[i] \in Span
        BY <2>4
      <3>2. r[i][1] \in Nat /\ r[i][2] \in Nat /\ r[i][1] <= r[i][2]
        BY <3>1 DEF Span
      <3> QED
        BY <3>2, RangeChunk DEF BlockRange
    <2> HIDE DEF part
    <2>6. out \in Seq(NumberChunk) /\ DOMAIN out = DOMAIN r /\ \A i \in DOMAIN r : out[i] = part(i)
      BY <2>3, <2>4, <2>5
    <2>7. chunk_values(out) = values(c)
      <3>1. [i \in DOMAIN out |-> values(out[i])] = [i \in DOMAIN r |-> values(BlockRange(r[i][1], r[i][2]))]
        BY <2>6 DEF part
      <3>2. FlattenSeq([i \in DOMAIN r |-> values(BlockRange(r[i][1], r[i][2]))])
              = values(BlockRange(c.from, c.to))
        BY <2>1, <2>2, RunValues
      <3>3. values(BlockRange(c.from, c.to)) = values(c)
        BY <1>1 DEF values, BlockRange
      <3> QED
        BY <3>1, <3>2, <3>3, Zenon DEF chunk_values
    <2>8. ASSUME NEW i \in DOMAIN out PROVE \E k \in Nat : out[i].from = c.from + k * chunk_size
      <3>1. \E k \in Nat : r[i][1] = c.from + k * chunk_size
        BY <2>2, <2>4, <2>6, Zenon DEF Run
      <3> QED
        BY <2>5, <2>6, <3>1
    <2> QED
      BY <1>1, <2>6, <2>7, <2>8 DEF CutUp, out
  <1>2. CASE c.kind # "range"
    <2>1. c.items \in Seq(Nat) /\ values(c) = c.items
      BY <1>2 DEF NumberChunk, values
    <2>2. chunk_size # 0
      BY <1>2 DEF subchunk_by_size, Err
    <2> DEFINE r == slice_chunks(c.items, chunk_size)
    <2>3. r \in Seq(Seq(Nat)) /\ FlattenSeq(r) = c.items
      BY <2>1, <2>2, SliceChunks
    <2>4. out = [i \in DOMAIN r |-> Numbers(r[i])]
      BY <1>2, <2>2 DEF subchunk_by_size, Ok
    <2> HIDE DEF r, out
    <2>5. ASSUME NEW i \in DOMAIN r
          PROVE  /\ Numbers(r[i]) \in NumberChunk /\ Numbers(r[i]).kind # "range"
                 /\ values(Numbers(r[i])) = r[i]
      <3>1. r[i] \in Seq(Nat)
        BY <2>3
      <3> QED
        BY <3>1 DEF Numbers, NumberChunk, values
    <2>6. DOMAIN r = 1 .. Len(r) /\ Len(r) \in Nat
      BY <2>3
    <2>7. out \in Seq(NumberChunk) /\ DOMAIN out = DOMAIN r /\ \A i \in DOMAIN r : out[i] = Numbers(r[i])
      BY <2>4, <2>5, <2>6
    <2>8. [i \in DOMAIN out |-> values(out[i])] = r
      <3>1. [i \in DOMAIN out |-> values(out[i])] = [i \in DOMAIN r |-> r[i]]
        BY <2>5, <2>7
      <3>2. r = [i \in DOMAIN r |-> r[i]]
        BY <2>3
      <3> QED
        BY <3>1, <3>2
    <2>9. chunk_values(out) = values(c)
      BY <2>1, <2>3, <2>8, Zenon DEF chunk_values
    <2>10. \A i \in DOMAIN out : out[i].kind # "range"
      BY <2>5, <2>7
    <2> QED
      BY <2>7, <2>9, <2>10, Zenon DEF CutUp, out
  <1> QED
    BY <1>1, <1>2

LEMMA SubchunkByCount ==
  ASSUME NEW c \in NumberChunk, NEW n \in Nat \ {0}, subchunk_by_count(c, n).ok
  PROVE  /\ subchunk_by_count(c, n).val \in Seq(NumberChunk)
         /\ chunk_values(subchunk_by_count(c, n).val) = values(c)
  <1>1. size(c) \in Nat
    BY ChunkValues
  <1>2. \A a \in Nat, b \in Nat \ {0} : (a + b - 1) \div b \in Nat
    <2>1. \A a \in Nat, b \in Nat \ {0} : a \div b \in Nat
      OBVIOUS
    <2> QED
      BY <2>1
  <1>3. div_ceil(size(c), n) \in Nat
    BY <1>1, <1>2 DEF div_ceil
  <1>4. subchunk_by_count(c, n) = subchunk_by_size(c, div_ceil(size(c), n))
    BY DEF subchunk_by_count
  <1> QED
    BY <1>3, <1>4, SubchunkBySize DEF CutUp

LEMMA ChunkLists ==
  ASSUME NEW cs \in Seq(NumberChunk)
  PROVE  /\ chunk_values(cs) \in Seq(Nat)
         /\ \A v \in ToSet(chunk_values(cs)) : \E i \in DOMAIN cs : v \in ToSet(values(cs[i]))
         /\ to_single_chunk(cs) \in NumberChunk
  <1> DEFINE vs == [i \in DOMAIN cs |-> values(cs[i])]
  <1>1. \A i \in DOMAIN cs : values(cs[i]) \in Seq(Nat)
    <2> TAKE i \in DOMAIN cs
    <2>1. cs[i] \in NumberChunk
      OBVIOUS
    <2> QED
      BY <2>1, ChunkValues
  <1>2. DOMAIN cs = 1 .. Len(cs) /\ Len(cs) \in Nat
    OBVIOUS
  <1>3. vs \in Seq(Seq(Nat)) /\ DOMAIN vs = DOMAIN cs /\ \A i \in DOMAIN cs : vs[i] = values(cs[i])
    BY <1>1, <1>2
  <1> HIDE DEF vs
  <1>4. FlattenSeq(vs) \in Seq(Nat)
    BY <1>3, FlattenElements
  <1>5. chunk_values(cs) = FlattenSeq(vs)
    BY DEF chunk_values, vs
  <1>6. ASSUME NEW v \in ToSet(FlattenSeq(vs))
        PROVE  \E i \in DOMAIN cs : v \in ToSet(values(cs[i]))
    <2>1. PICK k \in DOMAIN FlattenSeq(vs) : v = FlattenSeq(vs)[k]
      BY DEF ToSet
    <2>2. PICK i \in DOMAIN vs : \E j \in DOMAIN vs[i] : FlattenSeq(vs)[k] = vs[i][j]
      BY <1>3, FlattenElements
    <2>3. v \in ToSet(vs[i])
      BY <2>1, <2>2 DEF ToSet
    <2> QED
      BY <1>3, <2>2, <2>3
  <1>7. to_single_chunk(cs) \in NumberChunk
    <2>1. CASE Len(cs) = 1
      BY <2>1 DEF to_single_chunk
    <2>2. CASE Len(cs) # 1
      <3>1. to_single_chunk(cs) = Numbers(FlattenSeq(vs))
        BY <2>2 DEF to_single_chunk, vs
      <3> QED
        BY <1>4, <3>1 DEF Numbers, NumberChunk
    <2> QED
      BY <2>1, <2>2
  <1> QED
    BY <1>4, <1>5, <1>6, <1>7

(* to_single_chunk keeps the blocks, their order and their repetitions.    *)
LEMMA SingleChunk ==
  ASSUME NEW cs \in Seq(NumberChunk)
  PROVE  /\ values(to_single_chunk(cs)) = chunk_values(cs)
         /\ \A i \in DOMAIN cs : ToSet(values(cs[i])) \subseteq ToSet(chunk_values(cs))
  <1> DEFINE vs == [i \in DOMAIN cs |-> values(cs[i])]
             all == FlattenSeq(vs)
  <1>1. \A i \in DOMAIN cs : cs[i] \in NumberChunk /\ values(cs[i]) \in Seq(Nat)
    <2>1. \A i \in DOMAIN cs : cs[i] \in NumberChunk
      OBVIOUS
    <2> QED
      BY <2>1, ChunkValues
  <1>2. DOMAIN cs = 1 .. Len(cs) /\ Len(cs) \in Nat
    OBVIOUS
  <1>3. vs \in Seq(Seq(Nat)) /\ Len(vs) = Len(cs) /\ \A i \in DOMAIN cs : vs[i] = values(cs[i])
    BY <1>1, <1>2
  <1>4. chunk_values(cs) = all
    BY Zenon DEF chunk_values
  <1>5. Len(cs) # 1 => to_single_chunk(cs) = Numbers(all)
    BY Zenon DEF to_single_chunk
  <1> HIDE DEF vs
  <1>6. all \in Seq(Nat)
    BY <1>3, FlattenElements
  <1>7. values(to_single_chunk(cs)) = all
    <2>1. CASE Len(cs) = 1
      <3> DEFINE F == Flat(vs)
      <3>1. Accumulates(F, vs, Nat)
        BY <1>3, FlatSteps
      <3> HIDE DEF F
      <3>2. 1 \in 1 .. Len(vs) /\ 1 \in DOMAIN cs /\ 1 - 1 = 0 /\ Len(vs) = 1
        BY <1>2, <1>3, <2>1
      <3>3. F[1] = F[1 - 1] \o vs[1] /\ F[0] = <<>> /\ F[1] = all
        BY <3>1, <3>2, Zenon DEF Accumulates
      <3>4. vs[1] \in Seq(Nat) /\ vs[1] = values(cs[1])
        BY <1>1, <1>3, <3>2
      <3>5. <<>> \o vs[1] = vs[1]
        BY <3>4
      <3>6. to_single_chunk(cs) = cs[1]
        BY <2>1, Zenon DEF to_single_chunk
      <3> HIDE DEF all
      <3> QED
        BY <3>2, <3>3, <3>4, <3>5, <3>6
    <2>2. CASE Len(cs) # 1
      BY <1>5, <2>2 DEF Numbers, values
    <2> QED
      BY <2>1, <2>2
  <1>8. ASSUME NEW i \in DOMAIN cs, NEW v \in ToSet(values(cs[i])) PROVE v \in ToSet(all)
    <2>1. i \in 1 .. Len(vs) /\ vs[i] \in Seq(Nat) /\ vs[i] = values(cs[i])
      BY <1>1, <1>2, <1>3
    <2>2. PICK j \in 1 .. Len(vs[i]) : v = vs[i][j]
      BY <2>1 DEF ToSet
    <2>3. \E k \in 1 .. Len(all) : all[k] = v
      BY <1>3, <2>1, <2>2, FlatPlace
    <2> QED
      BY <1>6, <2>3 DEF ToSet
  <1> QED
    BY <1>4, <1>7, <1>8

LEMMA Multiple ==
  ASSUME NEW q \in Nat, NEW b \in Nat \ {0}
  PROVE  (q * b) % b = 0
  <1> DEFINE a == q * b
             d == a \div b
             m == a % b
  <1>1. a \in Nat
    OBVIOUS
  <1>2. d \in Nat /\ m \in Nat /\ m < b /\ a = b * d + m
    <2> HIDE DEF a
    <2> QED
      BY <1>1, Division
  <1> HIDE DEF d, m
  <1>3. m = b * (q - d)
    BY <1>2
  <1>4. CASE q - d >= 1
    <2>1. b * (q - d) >= b
      BY <1>2, <1>4
    <2> QED
      BY <1>2, <1>3, <2>1
  <1>5. CASE q - d <= -1
    <2>1. b * (q - d) <= -b
      BY <1>2, <1>5
    <2> QED
      BY <1>2, <1>3, <2>1
  <1>6. CASE q - d = 0
    <2>1. b * 0 = 0
      OBVIOUS
    <2> QED
      BY <1>3, <1>6, <2>1 DEF m
  <1> QED
    BY <1>2, <1>4, <1>5, <1>6

(* What align leaves of a chunk is in it, and starts a chunk.              *)
LEMMA Align ==
  ASSUME NEW c \in NumberChunk, NEW chunk_size \in Nat \ {0}
  PROVE  /\ align(c, chunk_size) \in Seq(NumberChunk)
         /\ \A i \in DOMAIN align(c, chunk_size) :
              /\ ToSet(values(align(c, chunk_size)[i])) \subseteq ToSet(values(c))
              /\ align(c, chunk_size)[i].kind = "range" =>
                   \E q \in Nat : align(c, chunk_size)[i].from = q * chunk_size
  <1>1. CASE c.kind # "range"
    <2>1. align(c, chunk_size) = <<c>>
      BY <1>1 DEF align
    <2>2. <<c>> \in Seq(NumberChunk) /\ \A i \in DOMAIN <<c>> : <<c>>[i] = c
      OBVIOUS
    <2> QED
      BY <1>1, <2>1, <2>2
  <1>2. CASE c.kind = "range"
    <2> DEFINE up == div_ceil(c.from, chunk_size)
               down == c.to \div chunk_size
               start == up * chunk_size
               end == down * chunk_size
               out == BlockRange(start, end)
    <2>1. c.from \in Nat /\ c.to \in Nat /\ c.from <= c.to /\ c = BlockRange(c.from, c.to)
      BY <1>2 DEF NumberChunk, BlockRange
    <2>2. up \in Nat /\ c.from <= start
      <3> DEFINE t == c.from + chunk_size - 1
                 u == t \div chunk_size
                 rest == t % chunk_size
      <3>1. t \in Nat
        BY <2>1
      <3>2. u \in Nat /\ rest \in Nat /\ rest < chunk_size /\ t = chunk_size * u + rest
        <4> HIDE DEF t
        <4> QED
          BY <3>1, Division
      <3>3. up = u
        BY DEF div_ceil
      <3> HIDE DEF u, rest, up
      <3>4. chunk_size * u = start /\ chunk_size * u \in Nat
        BY <3>2, <3>3
      <3> HIDE DEF start
      <3> QED
        BY <2>1, <3>2, <3>3, <3>4
    <2>3. down \in Nat /\ end <= c.to
      <3> DEFINE rest == c.to % chunk_size
      <3>1. down \in Nat /\ rest \in Nat /\ c.to = chunk_size * down + rest
        BY <2>1, Division
      <3> HIDE DEF down, rest
      <3>2. chunk_size * down = end /\ chunk_size * down \in Nat
        BY <3>1
      <3> HIDE DEF end
      <3> QED
        BY <2>1, <3>1, <3>2
    <2> HIDE DEF up, down
    <2>4. start \in Nat /\ end \in Nat
      BY <2>2, <2>3
    <2>5. align(c, chunk_size) = IF end > start THEN <<out>> ELSE <<>>
      BY <1>2 DEF align, up, down
    <2> HIDE DEF start, end
    <2>6. CASE end > start
      <3>1. start <= end
        BY <2>4, <2>6
      <3>2. out \in NumberChunk /\ ToSet(values(out)) = start .. end
        BY <2>4, <3>1, RangeChunk
      <3>3. ToSet(values(c)) = c.from .. c.to
        BY <2>1, RangeChunk
      <3>4. start .. end \subseteq c.from .. c.to
        BY <2>1, <2>2, <2>3, <2>4
      <3>5. \E q \in Nat : out.from = q * chunk_size
        <4>1. out.from = start
          BY DEF BlockRange
        <4> QED
          BY <2>2, <4>1 DEF start
      <3> HIDE DEF out
      <3>6. <<out>> \in Seq(NumberChunk) /\ \A i \in DOMAIN <<out>> : <<out>>[i] = out
        BY <3>2
      <3> QED
        BY <2>5, <2>6, <3>2, <3>3, <3>4, <3>5, <3>6
    <2>7. CASE ~(end > start)
      <3>1. align(c, chunk_size) = <<>> /\ DOMAIN <<>> = {} /\ <<>> \in Seq(NumberChunk)
        BY <2>5, <2>7
      <3> QED
        BY <3>1
    <2> QED
      BY <2>6, <2>7
  <1> QED
    BY <1>1, <1>2

(* The chunks of out hold the blocks of cs, all of them unless they were   *)
(* aligned.                                                                *)
Kept(out, cs) ==
  /\ ~cmd.align => chunk_values(out) = chunk_values(cs)
  /\ ToSet(chunk_values(out)) \subseteq ToSet(chunk_values(cs))
  /\ cmd.align /\ cmd.n_chunks = 0 =>
       \A i \in DOMAIN out : out[i].kind = "range" => out[i].from % cmd.chunk_size = 0

LEMMA AlignAndSplit ==
  ASSUME NEW cs \in Seq(NumberChunk), cmd \in Commands, align_and_split(cs).ok
  PROVE  /\ align_and_split(cs).val \in Seq(NumberChunk)
         /\ Kept(align_and_split(cs).val, cs)
  <1> DEFINE unit == cmd.chunk_size
             parts == [i \in DOMAIN cs |-> align(cs[i], unit)]
             all == FlattenSeq(parts)
             aligned == IF cmd.align THEN all ELSE cs
             whole == to_single_chunk(aligned)
             out == align_and_split(cs).val
             Starts(c) == c.kind = "range" => \E q \in Nat : c.from = q * unit
  <1>1. unit \in Nat \ {0} /\ unit \in Nat /\ cmd.n_chunks \in Nat /\ cmd.align \in BOOLEAN
    BY CommandsAssumption
  <1>2. align_and_split(cs) = IF cmd.n_chunks # 0 THEN subchunk_by_count(whole, cmd.n_chunks)
                              ELSE subchunk_by_size(whole, unit)
    BY Zenon DEF align_and_split
  <1> HIDE DEF unit
  <1>3. ASSUME NEW i \in DOMAIN cs
        PROVE  /\ align(cs[i], unit) \in Seq(NumberChunk)
               /\ \A j \in DOMAIN align(cs[i], unit) :
                    /\ ToSet(values(align(cs[i], unit)[j])) \subseteq ToSet(values(cs[i]))
                    /\ Starts(align(cs[i], unit)[j])
    <2>1. cs[i] \in NumberChunk
      OBVIOUS
    <2> QED
      BY <1>1, <2>1, Align
  <1>4. parts \in Seq(Seq(NumberChunk)) /\ DOMAIN parts = DOMAIN cs /\ \A i \in DOMAIN cs : parts[i] = align(cs[i], unit)
    <2>1. DOMAIN cs = 1 .. Len(cs) /\ Len(cs) \in Nat
      OBVIOUS
    <2> QED
      BY <1>3, <2>1
  <1> HIDE DEF parts, out
  <1>5. all \in Seq(NumberChunk)
    BY <1>4, FlattenElements
  <1>6. ASSUME NEW k \in DOMAIN all
        PROVE  /\ ToSet(values(all[k])) \subseteq ToSet(chunk_values(cs))
               /\ Starts(all[k])
    <2>1. PICK i \in DOMAIN parts : \E j \in DOMAIN parts[i] : all[k] = parts[i][j]
      BY <1>4, FlattenElements
    <2>2. PICK j \in DOMAIN parts[i] : all[k] = parts[i][j]
      BY <2>1
    <2>3. i \in DOMAIN cs /\ j \in DOMAIN align(cs[i], unit) /\ all[k] = align(cs[i], unit)[j]
      BY <1>4, <2>2
    <2> HIDE DEF all, Starts
    <2>4. ToSet(values(all[k])) \subseteq ToSet(values(cs[i])) /\ Starts(all[k])
      BY <1>3, <2>3
    <2>5. ToSet(values(cs[i])) \subseteq ToSet(chunk_values(cs))
      BY <2>3, SingleChunk
    <2> QED
      BY <2>4, <2>5
  <1> HIDE DEF all
  <1>7. aligned \in Seq(NumberChunk)
    BY <1>5
  <1>8. ToSet(chunk_values(aligned)) \subseteq ToSet(chunk_values(cs))
    <2>1. CASE cmd.align
      <3>1. aligned = all
        BY <2>1
      <3>2. \A v \in ToSet(chunk_values(all)) : \E k \in DOMAIN all : v \in ToSet(values(all[k]))
        BY <1>5, ChunkLists
      <3> QED
        BY <1>6, <3>1, <3>2
    <2>2. CASE ~cmd.align
      BY <2>2
    <2> QED
      BY <2>1, <2>2
  <1>9. cmd.align => Starts(whole)
    <2> SUFFICES ASSUME cmd.align PROVE Starts(whole)
      OBVIOUS
    <2>1. aligned = all
      OBVIOUS
    <2>2. CASE Len(all) = 1
      <3>1. whole = all[1] /\ 1 \in DOMAIN all
        BY <1>5, <2>1, <2>2 DEF to_single_chunk
      <3> QED
        BY <1>6, <3>1
    <2>3. CASE Len(all) # 1
      <3>1. whole.kind = "numbers"
        BY <2>1, <2>3 DEF to_single_chunk, Numbers
      <3> QED
        BY <3>1
    <2> QED
      BY <2>2, <2>3
  <1> HIDE DEF aligned
  <1>10. whole \in NumberChunk /\ values(whole) = chunk_values(aligned)
    BY <1>7, ChunkLists, SingleChunk
  <1> HIDE DEF whole
  <1>11. /\ out \in Seq(NumberChunk) /\ chunk_values(out) = values(whole)
         /\ cmd.n_chunks = 0 => CutUp(out, whole, unit)
    <2>1. CASE cmd.n_chunks # 0
      <3>1. align_and_split(cs) = subchunk_by_count(whole, cmd.n_chunks) /\ cmd.n_chunks \in Nat \ {0}
        BY <1>1, <1>2, <2>1
      <3> QED
        BY <1>10, <2>1, <3>1, SubchunkByCount DEF out
    <2>2. CASE cmd.n_chunks = 0
      <3>1. align_and_split(cs) = subchunk_by_size(whole, unit)
        BY <1>2, <2>2
      <3>2. CutUp(out, whole, unit)
        BY <1>1, <1>10, <3>1, SubchunkBySize DEF out
      <3> QED
        BY <3>2 DEF CutUp
    <2> QED
      BY <2>1, <2>2
  <1>12. ~cmd.align => chunk_values(out) = chunk_values(cs)
    <2>1. ~cmd.align => aligned = cs
      BY DEF aligned
    <2> QED
      BY <1>10, <1>11, <2>1
  <1>13. ToSet(chunk_values(out)) \subseteq ToSet(chunk_values(cs))
    BY <1>8, <1>10, <1>11
  <1>14. ASSUME cmd.align, cmd.n_chunks = 0, NEW i \in DOMAIN out, out[i].kind = "range"
         PROVE  out[i].from % unit = 0
    <2>1. whole.kind = "range" /\ \E k \in Nat : out[i].from = whole.from + k * unit
      BY <1>11, <1>14, Zenon DEF CutUp
    <2>2. PICK k \in Nat : out[i].from = whole.from + k * unit
      BY <2>1
    <2>3. PICK q \in Nat : whole.from = q * unit
      BY <1>9, <1>14, <2>1
    <2>4. q * unit + k * unit = (q + k) * unit /\ q + k \in Nat
      BY <1>1
    <2>5. ((q + k) * unit) % unit = 0
      BY <1>1, <2>4, Multiple
    <2> QED
      BY <2>2, <2>3, <2>4, <2>5
  <1>15. Kept(out, cs)
    BY <1>12, <1>13, <1>14 DEF Kept, unit
  <1> QED
    BY <1>11, <1>15 DEF out

-----------------------------------------------------------------------------
(* The invariant                                                           *)

TypeOK ==
  /\ head \in 0 .. MaxHead /\ born \in 0 .. head
  /\ cmd \in Commands
  /\ phase \in {"token", "second", "start", "end", "post", "reorg", "partition", "done", "err"}
  /\ at \in Nat \ {0}
  /\ lo \in Nat /\ hi \in Nat
  /\ parsed \in Seq(NumberChunk) /\ chunks \in Seq(NumberChunk)

\* The token in hand is the one after those parsed; nothing is cut before all are.
InHand ==
  /\ phase \in {"token", "second", "start", "end"} => Len(parsed) = at - 1
  /\ phase \in {"second", "start", "end"} => at <= Len(Tokens(cmd))
  /\ phase \in {"start", "end"} => cmd.unit = "timestamp"
  /\ phase \in {"token", "second", "start", "end"} => chunks = <<>>

Timed(t) == t.kind = "range" /\ t.first[1] = "num" /\ t.second[1] = "num"

\* What lo and hi hold between two requests: the times of the token, then the blocks of a
\* head that the command has seen.
EndsHeld ==
  /\ phase = "second" /\ token.first[1] = "num" => lo = token.first[2]
  /\ phase \in {"start", "end"} =>
       /\ Open(token) => \E h \in born .. head : hi = TimeOf[h]
       /\ Timed(token) => hi + 1 = token.second[2]
       /\ Timed(token) /\ phase = "start" => lo = token.first[2]
       /\ Timed(token) /\ phase = "end" /\ DistinctTimes =>
            \E h \in born .. head : BlockAt(lo, token.first[2], h)

\* One token's share of OpenRangesReachTheHead and of TimesCovered.
ReachesHead(t, c) ==
  (cmd.unit = "block" \/ DistinctTimes) /\ Open(t) =>
    \E m \in max_value(c) : born <= m /\ m <= head

TakesTimes(t, got) ==
  DistinctTimes /\ cmd.unit = "timestamp" /\ Timed(t) =>
    /\ \A b \in 0 .. born : t.first[2] <= TimeOf[b] /\ TimeOf[b] < t.second[2] => b \in got
    /\ \A b \in got : b > 0 => TimeOf[b] < t.second[2]
    /\ t.first[2] <= TimeOf[born] => Cardinality({b \in got : TimeOf[b] < t.first[2]}) <= 1

AsNamed(i) ==
  /\ ReachesHead(Tokens(cmd)[i].tok, parsed[i])
  /\ TakesTimes(Tokens(cmd)[i].tok, ToSet(values(parsed[i])))

IInv ==
  /\ TypeOK /\ InHand /\ EndsHeld
  /\ \A i \in DOMAIN parsed : AsNamed(i)
  /\ OldEnough

-----------------------------------------------------------------------------
(* Tokens and their ends                                                   *)

Placed == [tok : Token, as_range : BOOLEAN]

LEMMA TokensTyped ==
  ASSUME NEW c \in Commands
  PROVE  Tokens(c) \in Seq(Placed)
  <1> DEFINE Place(i) == [j \in DOMAIN c.expressions[i] |->
                            [tok |-> c.expressions[i][j], as_range |-> Len(c.expressions[i]) = 1]]
             parts == [i \in DOMAIN c.expressions |-> Place(i)]
  <1>1. c.expressions \in Seq(Seq(Token))
    BY CommandsAssumption
  <1>2. ASSUME NEW i \in DOMAIN c.expressions PROVE Place(i) \in Seq(Placed)
    <2> DEFINE e == c.expressions[i]
    <2>1. e \in Seq(Token)
      BY <1>1
    <2> HIDE DEF e
    <2>2. DOMAIN e = 1 .. Len(e) /\ Len(e) \in Nat /\ \A j \in DOMAIN e : e[j] \in Token
      BY <2>1
    <2>3. [j \in DOMAIN e |-> [tok |-> e[j], as_range |-> Len(e) = 1]] \in Seq(Placed)
      BY <2>2 DEF Placed
    <2> QED
      BY <2>3 DEF e
  <1> HIDE DEF Place
  <1>3. DOMAIN c.expressions = 1 .. Len(c.expressions) /\ Len(c.expressions) \in Nat
    BY <1>1
  <1>4. parts \in Seq(Seq(Placed))
    BY <1>2, <1>3
  <1> HIDE DEF parts
  <1>5. FlattenSeq(parts) \in Seq(Placed)
    BY <1>4, FlattenElements
  <1> QED
    BY <1>5 DEF Tokens, parts, Place

LEMMA TokenInHand ==
  ASSUME TypeOK, at <= Len(Tokens(cmd))
  PROVE  token \in Token /\ Tokens(cmd)[at].as_range \in BOOLEAN
  <1>1. Tokens(cmd) \in Seq(Placed) /\ at \in Nat \ {0}
    BY TokensTyped DEF TypeOK
  <1>2. Tokens(cmd)[at] \in Placed
    BY <1>1
  <1> QED
    BY <1>2 DEF token, Placed

LEMMA LatestTyped ==
  ASSUME TypeOK
  PROVE  Latest \in Nat
  BY ChainAssumption DEF TypeOK, Latest

LEMMA ParseNumber ==
  ASSUME NEW ref \in Ref, NEW position, NEW latest \in Nat,
         parse_number(ref, position, latest).ok
  PROVE  /\ parse_number(ref, position, latest).val \in Nat
         /\ ref[1] = "num" => parse_number(ref, position, latest).val = ref[2]
         /\ ref[1] \in {"latest", "empty"} /\ position = "last" =>
              parse_number(ref, position, latest).val = latest
         /\ ref[1] # "minus"
  <1>1. \/ ref[1] \in {"latest", "empty", "bad"}
        \/ ref[1] \in {"num", "minus", "plus"} /\ ref[2] \in Nat
    BY DEF Ref
  <1>2. CASE ref[1] = "latest"
    BY <1>2 DEF parse_number, Ok
  <1>3. CASE ref[1] = "empty"
    BY <1>3 DEF parse_number, Ok, Err
  <1>4. CASE ref[1] \in {"num", "plus"}
    BY <1>1, <1>4 DEF parse_number, Ok
  <1>5. CASE ref[1] \in {"minus", "bad"}
    BY <1>5 DEF parse_number, Err
  <1> QED
    BY <1>1, <1>2, <1>3, <1>4, <1>5

LEMMA RangeEnds ==
  ASSUME token \in Token, lo \in Nat, NEW n \in Nat,
         range_ends(n)[1].ok, range_ends(n)[2].ok
  PROVE  /\ range_ends(n)[1].val \in Nat /\ range_ends(n)[2].val \in Nat
         /\ Open(token) => range_ends(n)[2].val = n
         /\ token.first[1] = "num" => range_ends(n)[1].val = lo
         /\ Timed(token) => range_ends(n)[2].val + 1 = n
  <1> DEFINE relative == token.first[1] = "minus"
             start == IF relative THEN checked_sub(n, token.first[2]) ELSE Ok(lo)
             end == IF ~relative /\ token.second[1] = "plus" THEN lo + n ELSE n
             last == IF token.second[1] \notin {"latest", "empty"} /\ ~relative
                     THEN checked_sub(end, 1) ELSE Ok(end)
             first == IF relative /\ cmd.unit = "block" /\ start.ok THEN Ok(start.val + 1) ELSE start
  <1>1. range_ends(n)[1] = first /\ range_ends(n)[2] = last
    BY DEF range_ends
  <1>2. \A a, b \in Nat : checked_sub(a, b).ok =>
          checked_sub(a, b).val \in Nat /\ checked_sub(a, b).val = a - b
    BY DEF checked_sub, Ok, Err
  <1>3. relative => token.first[2] \in Nat
    BY DEF Token, Ref
  <1>4. \A a : Ok(a).ok /\ Ok(a).val = a
    BY DEF Ok
  <1>5. end \in Nat
    OBVIOUS
  <1>6. last.val \in Nat
    BY <1>1, <1>2, <1>4, <1>5
  <1>7. first.val \in Nat
    BY <1>1, <1>2, <1>3, <1>4
  <1>8. Open(token) => last.val = n
    BY <1>4 DEF Open
  <1>9. token.first[1] = "num" => first.val = lo
    BY <1>4
  <1>10. Timed(token) => last.val + 1 = n
    <2> SUFFICES ASSUME Timed(token) PROVE last.val + 1 = n
      OBVIOUS
    <2>1. last = checked_sub(n, 1)
      BY DEF Timed
    <2> QED
      BY <1>1, <1>2, <2>1
  <1> QED
    BY <1>1, <1>6, <1>7, <1>8, <1>9, <1>10

(* A range from the block of its first time to the block of its last.      *)
LEMMA TimesTaken ==
  ASSUME TypeOK, DistinctTimes, NEW t \in Token, Timed(t),
         NEW from \in Nat, NEW to \in Nat,
         NEW h \in born .. head, BlockAt(from, t.first[2], h),
         NEW time \in Nat, time + 1 = t.second[2], BlockAt(to, time, head)
  PROVE  TakesTimes(t, from .. to)
  <1> DEFINE first == t.first[2]
             second == t.second[2]
  <1>1. first \in Nat /\ second \in Nat
    BY DEF Token, Ref, Timed
  <1>2. /\ head \in Nat /\ born \in Nat /\ born <= head /\ h \in Nat /\ born <= h /\ h <= head
        /\ MaxHead \in Nat /\ head <= MaxHead
    BY ChainAssumption DEF TypeOK
  <1>3. \A b \in 0 .. MaxHead : TimeOf[b] \in Nat
    BY ChainAssumption
  <1>4. \A a, b \in 0 .. MaxHead : a < b => TimeOf[a] < TimeOf[b]
    <2> SUFFICES ASSUME NEW a \in 0 .. MaxHead, NEW b \in 0 .. MaxHead, a < b
                 PROVE  TimeOf[a] < TimeOf[b]
      OBVIOUS
    <2>1. a \in 0 .. b - 1
      BY <1>2
    <2> QED
      BY <2>1, TimesIncrease
  <1>5. /\ from <= h /\ (from > 0 => TimeOf[from] <= first)
        /\ \A b \in 0 .. h : b > from => TimeOf[b] > first
        /\ to <= head /\ (to > 0 => TimeOf[to] <= time)
        /\ \A b \in 0 .. head : b > to => TimeOf[b] > time
    BY DEF BlockAt
  <1> HIDE DEF first, second
  <1>6. time + 1 = second
    BY DEF second
  <1>7. ASSUME NEW b \in 0 .. born, first <= TimeOf[b], TimeOf[b] < second
        PROVE  b \in from .. to
    <2>1. b \in 0 .. head /\ b \in 0 .. MaxHead /\ TimeOf[b] \in Nat
      BY <1>2, <1>3
    <2>2. ~(b > to)
      BY <1>5, <1>6, <1>7, <2>1
    <2>3. ~(from > b)
      <3> SUFFICES ASSUME from > b PROVE FALSE
        OBVIOUS
      <3>1. from \in 0 .. MaxHead /\ from > 0 /\ b < from
        BY <1>2, <1>5, <2>1
      <3>2. TimeOf[b] < TimeOf[from] /\ TimeOf[from] <= first /\ TimeOf[from] \in Nat
        BY <1>3, <1>4, <1>5, <2>1, <3>1
      <3> QED
        BY <1>1, <1>7, <2>1, <3>2 DEF first
    <2> QED
      BY <2>1, <2>2, <2>3
  <1>8. ASSUME NEW b \in from .. to, b > 0 PROVE TimeOf[b] < second
    <2>1. b \in 0 .. MaxHead /\ to \in 0 .. MaxHead /\ to > 0
      BY <1>2, <1>5, <1>8
    <2>2. TimeOf[b] \in Nat /\ TimeOf[to] \in Nat /\ TimeOf[to] <= time
      BY <1>3, <1>5, <2>1
    <2>3. b = to \/ TimeOf[b] < TimeOf[to]
      BY <1>4, <2>1
    <2> QED
      BY <1>6, <2>2, <2>3
  <1>9. ASSUME first <= TimeOf[born]
        PROVE  Cardinality({b \in from .. to : TimeOf[b] < first}) <= 1
    <2> DEFINE early == {b \in from .. to : TimeOf[b] < first}
    <2>1. ASSUME NEW b \in early PROVE b = from
      <3> SUFFICES ASSUME b # from PROVE FALSE
        OBVIOUS
      <3>1. /\ b \in Nat /\ b > from /\ b <= to /\ TimeOf[b] < first
            /\ b \in 0 .. MaxHead /\ born \in 0 .. MaxHead
        BY <1>2, <1>5
      <3>2. TimeOf[b] \in Nat /\ TimeOf[born] \in Nat /\ first \in Nat
        BY <1>1, <1>3, <3>1 DEF first
      <3>3. CASE b <= h
        <4>1. TimeOf[b] > first
          BY <1>2, <1>5, <3>1, <3>3
        <4> QED
          BY <3>1, <3>2, <4>1
      <3>4. CASE ~(b <= h)
        <4>1. TimeOf[born] < TimeOf[b]
          BY <1>2, <1>4, <3>1, <3>4
        <4> QED
          BY <1>9, <3>1, <3>2, <4>1
      <3> QED
        BY <3>3, <3>4
    <2>2. IsFiniteSet({from}) /\ Cardinality({from}) = 1
      BY FS_Singleton
    <2>3. early \subseteq {from}
      BY <2>1
    <2> HIDE DEF early
    <2>4. Cardinality(early) <= Cardinality({from})
      BY <2>2, <2>3, FS_Subset
    <2> QED
      BY <2>2, <2>4 DEF early
  <1> QED
    BY <1>7, <1>8, <1>9 DEF TakesTimes, first, second

-----------------------------------------------------------------------------
(* Steps                                                                   *)

LEMMA FailStep ==
  ASSUME IInv, Fail
  PROVE  IInv'
  <1>1. TypeOK'
    BY DEF IInv, Fail, TypeOK
  <1>2. InHand' /\ EndsHeld' /\ OldEnough'
    BY DEF IInv, Fail, InHand, EndsHeld, OldEnough
  <1>3. \A i \in DOMAIN parsed' : AsNamed(i)'
    BY DEF IInv, Fail, AsNamed, ReachesHead, TakesTimes
  <1> QED
    BY <1>1, <1>2, <1>3 DEF IInv

(* A token's chunk is appended; the tokens before it keep theirs.          *)
LEMMA ParsedStep ==
  ASSUME IInv, phase \in {"token", "second", "start", "end"}, at <= Len(Tokens(cmd)),
         NEW r, Parsed(r),
         r.ok => /\ r.val \in NumberChunk
                 /\ ReachesHead(token, r.val)
                 /\ TakesTimes(token, ToSet(values(r.val)))
  PROVE  IInv'
  <1>1. CASE ~r.ok
    BY <1>1, FailStep DEF Parsed
  <1>2. CASE r.ok
    <2>1. /\ parsed' = Append(parsed, r.val) /\ at' = at + 1
          /\ phase' \in {"token", "post"}
          /\ UNCHANGED <<head, born, cmd, lo, hi, chunks, partitions>>
      BY <1>2 DEF Parsed
    <2>2. parsed \in Seq(NumberChunk) /\ Len(parsed) = at - 1 /\ chunks = <<>> /\ at \in Nat \ {0}
      BY DEF IInv, TypeOK, InHand
    <2>3. /\ parsed' \in Seq(NumberChunk) /\ Len(parsed') = at
          /\ DOMAIN parsed' = 1 .. at /\ DOMAIN parsed = 1 .. at - 1
          /\ parsed'[at] = r.val
          /\ \A i \in 1 .. at - 1 : parsed'[i] = parsed[i]
      BY <1>2, <2>1, <2>2
    <2>4. TypeOK'
      BY <2>1, <2>2, <2>3 DEF IInv, TypeOK
    <2>5. InHand' /\ EndsHeld' /\ OldEnough'
      BY <2>1, <2>2, <2>3 DEF InHand, EndsHeld, OldEnough
    <2>6. ASSUME NEW i \in DOMAIN parsed' PROVE AsNamed(i)'
      <3>1. i = at \/ i \in 1 .. at - 1
        BY <2>2, <2>3
      <3>2. CASE i = at
        BY <1>2, <2>1, <2>3, <3>2 DEF AsNamed, ReachesHead, TakesTimes, token
      <3>3. CASE i \in 1 .. at - 1
        <4>1. AsNamed(i)
          BY <2>3, <3>3 DEF IInv
        <4> QED
          BY <2>1, <2>3, <3>3, <4>1 DEF AsNamed, ReachesHead, TakesTimes
      <3> QED
        BY <3>1, <3>2, <3>3
    <2> QED
      BY <2>4, <2>5, <2>6 DEF IInv
  <1> QED
    BY <1>1, <1>2

(* A step that changes nothing the parsed chunks are measured by.          *)
LEMMA KeepsParsed ==
  ASSUME IInv, UNCHANGED <<born, cmd, parsed>>, head' \in Nat, head <= head'
  PROVE  \A i \in DOMAIN parsed' : AsNamed(i)'
  <1> SUFFICES ASSUME NEW i \in DOMAIN parsed PROVE AsNamed(i)'
    OBVIOUS
  <1>1. AsNamed(i) /\ parsed[i] \in NumberChunk /\ head \in Nat
    BY DEF IInv, TypeOK
  <1>2. \A m \in max_value(parsed[i]) : m \in Nat
    BY <1>1, ChunkValues
  <1>3. \A m \in max_value(parsed[i]) : m <= head => m <= head'
    BY <1>1, <1>2
  <1>4. ReachesHead(Tokens(cmd)[i].tok, parsed[i])'
    BY <1>1, <1>3 DEF AsNamed, ReachesHead
  <1>5. TakesTimes(Tokens(cmd)[i].tok, ToSet(values(parsed[i])))'
    BY <1>1 DEF AsNamed, TakesTimes
  <1> QED
    BY <1>4, <1>5 DEF AsNamed

(* Going on with the same token: only lo, hi and the phase change.         *)
LEMMA GotoStep ==
  ASSUME IInv, phase \in {"token", "second", "start", "end"}, at <= Len(Tokens(cmd)),
         NEW p \in {"second", "start", "end"}, Goto(p),
         p \in {"start", "end"} => cmd.unit = "timestamp",
         lo' \in Nat, hi' \in Nat, EndsHeld'
  PROVE  IInv'
  <1>1. UNCHANGED <<head, born, cmd, at, parsed, chunks, partitions>> /\ phase' = p
    BY DEF Goto
  <1>2. TypeOK'
    BY <1>1 DEF IInv, TypeOK
  <1>3. InHand' /\ OldEnough'
    BY <1>1 DEF IInv, InHand, OldEnough
  <1>4. \A i \in DOMAIN parsed' : AsNamed(i)'
    <2>1. head \in Nat /\ head' \in Nat /\ head <= head'
      BY <1>1 DEF IInv, TypeOK
    <2> QED
      BY <1>1, <2>1, KeepsParsed
  <1> QED
    BY <1>2, <1>3, <1>4 DEF IInv

LEMMA OneBlock ==
  ASSUME NEW t \in Token, t.kind = "one", NEW b \in Nat
  PROVE  /\ Numbers(<<b>>) \in NumberChunk
         /\ ReachesHead(t, Numbers(<<b>>))
         /\ TakesTimes(t, ToSet(values(Numbers(<<b>>))))
  <1>1. <<b>> \in Seq(Nat)
    OBVIOUS
  <1>2. ~Open(t) /\ ~Timed(t)
    BY DEF Open, Timed
  <1> QED
    BY <1>1, <1>2 DEF Numbers, NumberChunk, ReachesHead, TakesTimes

LEMMA ParseToken ==
  ASSUME IInv, parse_token
  PROVE  IInv'
  <1> DEFINE n == parse_number(token.first, IF token.kind = "one" THEN "none" ELSE "first", Latest)
  <1>1. TypeOK /\ phase = "token" /\ at <= Len(Tokens(cmd))
    BY DEF IInv, parse_token
  <1>2. token \in Token /\ token.first \in Ref
    BY <1>1, TokenInHand DEF Token
  <1>3. n.ok => n.val \in Nat /\ (token.first[1] = "num" => n.val = token.first[2])
    <2>1. Latest \in Nat
      BY <1>1, LatestTyped
    <2> QED
      BY <1>2, <2>1, ParseNumber
  <1>4. \/ Fail
        \/ token.kind = "one" /\ Parsed(IF n.ok THEN Ok(Numbers(<<n.val>>)) ELSE Err)
        \/ token.first[1] = "minus" /\ Goto("second") /\ UNCHANGED <<lo, hi>>
        \/ /\ token.kind # "one" \/ cmd.unit = "timestamp"
           /\ n.ok /\ lo' = n.val /\ UNCHANGED hi
           /\ Goto(IF token.kind = "one" THEN "start" ELSE "second")
    BY DEF parse_token
  <1> HIDE DEF n
  <1>5. CASE Fail
    BY <1>5, FailStep
  <1>6. CASE token.kind = "one" /\ Parsed(IF n.ok THEN Ok(Numbers(<<n.val>>)) ELSE Err)
    <2> DEFINE r == IF n.ok THEN Ok(Numbers(<<n.val>>)) ELSE Err
    <2>1. r.ok => n.ok /\ r.val = Numbers(<<n.val>>)
      BY DEF Ok, Err
    <2> HIDE DEF r
    <2>2. r.ok => /\ r.val \in NumberChunk
                  /\ ReachesHead(token, r.val)
                  /\ TakesTimes(token, ToSet(values(r.val)))
      BY <1>2, <1>3, <1>6, <2>1, OneBlock
    <2>3. Parsed(r)
      BY <1>6 DEF r
    <2> QED
      BY <1>1, <2>2, <2>3, ParsedStep
  <1>7. CASE token.first[1] = "minus" /\ Goto("second") /\ UNCHANGED <<lo, hi>>
    <2>1. phase' = "second" /\ UNCHANGED <<cmd, at>> /\ lo' \in Nat /\ hi' \in Nat
      BY <1>1, <1>7 DEF Goto, TypeOK
    <2>2. EndsHeld'
      BY <1>7, <2>1 DEF EndsHeld, token
    <2> QED
      BY <1>1, <1>7, <2>1, <2>2, GotoStep
  <1>8. CASE /\ token.kind # "one" \/ cmd.unit = "timestamp"
             /\ n.ok /\ lo' = n.val /\ UNCHANGED hi
             /\ Goto(IF token.kind = "one" THEN "start" ELSE "second")
    <2> DEFINE p == IF token.kind = "one" THEN "start" ELSE "second"
    <2>1. phase' = p /\ UNCHANGED <<cmd, at>> /\ lo' \in Nat /\ hi' \in Nat
      BY <1>1, <1>3, <1>8 DEF Goto, TypeOK
    <2>2. token' = token
      BY <2>1 DEF token
    <2>3. EndsHeld'
      BY <1>3, <1>8, <2>1, <2>2 DEF EndsHeld, Open, Timed
    <2>4. Goto(p) /\ p \in {"second", "start", "end"}
          /\ (p \in {"start", "end"} => cmd.unit = "timestamp")
      BY <1>8
    <2> HIDE DEF p
    <2> QED
      BY <1>1, <2>1, <2>3, <2>4, GotoStep
  <1> QED
    BY <1>4, <1>5, <1>6, <1>7, <1>8

LEMMA ParseSecond ==
  ASSUME IInv, parse_second
  PROVE  IInv'
  <1> DEFINE n == parse_number(token.second, "last", Latest)
             from == range_ends(n.val)[1].val
             to == range_ends(n.val)[2].val
             r == block_range_to_block_chunk(from, to, Tokens(cmd)[at].as_range, token)
  <1>1. TypeOK /\ EndsHeld /\ phase = "second" /\ at <= Len(Tokens(cmd)) /\ lo \in Nat
    BY DEF IInv, parse_second, InHand, TypeOK
  <1>2. token \in Token /\ token.second \in Ref /\ Tokens(cmd)[at].as_range \in BOOLEAN
    BY <1>1, TokenInHand DEF Token
  <1>3. \/ Fail
        \/ /\ n.ok /\ range_ends(n.val)[1].ok /\ range_ends(n.val)[2].ok
           /\ \/ cmd.unit = "block" /\ Parsed(r)
              \/ cmd.unit # "block" /\ lo' = from /\ hi' = to /\ Goto("start")
    BY DEF parse_second
  <1>4. CASE Fail
    BY <1>4, FailStep
  <1>5. ASSUME n.ok, range_ends(n.val)[1].ok, range_ends(n.val)[2].ok
        PROVE  /\ from \in Nat /\ to \in Nat
               /\ Open(token) => to = Latest
               /\ token.first[1] = "num" => from = lo
               /\ Timed(token) => to + 1 = token.second[2]
    <2>1. Latest \in Nat
      BY <1>1, LatestTyped
    <2>2. /\ n.val \in Nat
          /\ token.second[1] = "num" => n.val = token.second[2]
          /\ token.second[1] \in {"latest", "empty"} => n.val = Latest
      BY <1>2, <1>5, <2>1, ParseNumber
    <2> HIDE DEF n
    <2>3. /\ from \in Nat /\ to \in Nat
          /\ Open(token) => to = n.val
          /\ token.first[1] = "num" => from = lo
          /\ Timed(token) => to + 1 = n.val
      BY <1>1, <1>2, <1>5, <2>2, RangeEnds
    <2> HIDE DEF from, to
    <2> QED
      BY <2>2, <2>3 DEF Open, Timed
  <1> HIDE DEF n, from, to, r
  <1>6. CASE /\ n.ok /\ range_ends(n.val)[1].ok /\ range_ends(n.val)[2].ok
             /\ cmd.unit = "block" /\ Parsed(r)
    <2>1. head \in Nat /\ born <= head /\ Latest = head
      BY <1>1, <1>6 DEF TypeOK, Latest
    <2>2. ASSUME r.ok
          PROVE  /\ r.val \in NumberChunk
                 /\ token.kind = "range" => max_value(r.val) = {to}
      <3>1. from \in Nat /\ to \in Nat
        BY <1>5, <1>6
      <3> DEFINE whole == Tokens(cmd)[at].as_range
      <3>2. r = block_range_to_block_chunk(from, to, whole, token) /\ whole \in BOOLEAN
        BY <1>2 DEF r
      <3> HIDE DEF whole
      <3> QED
        BY <1>2, <2>2, <3>1, <3>2, RangeToChunk DEF Spans
    <2>3. r.ok => ReachesHead(token, r.val)
      <3> SUFFICES ASSUME r.ok, Open(token)
                   PROVE  \E m \in max_value(r.val) : born <= m /\ m <= head
        BY DEF ReachesHead
      <3>1. max_value(r.val) = {head}
        BY <1>5, <1>6, <2>1, <2>2 DEF Open
      <3> QED
        BY <2>1, <3>1
    <2>4. r.ok => TakesTimes(token, ToSet(values(r.val)))
      BY <1>6 DEF TakesTimes
    <2> QED
      BY <1>1, <1>6, <2>2, <2>3, <2>4, ParsedStep
  <1>7. CASE /\ n.ok /\ range_ends(n.val)[1].ok /\ range_ends(n.val)[2].ok
             /\ cmd.unit # "block" /\ lo' = from /\ hi' = to /\ Goto("start")
    <2>1. cmd.unit = "timestamp"
      BY <1>1, <1>7, CommandsAssumption DEF TypeOK
    <2>2. /\ phase' = "start" /\ UNCHANGED <<cmd, at, head, born>>
          /\ lo' \in Nat /\ hi' \in Nat
      BY <1>5, <1>7 DEF Goto
    <2>3. token' = token
      BY <2>2 DEF token
    <2>4. Open(token) => \E h \in born .. head : hi' = TimeOf[h]
      <3>1. head \in born .. head /\ Latest = TimeOf[head]
        BY <1>1, <2>1 DEF TypeOK, Latest
      <3> QED
        BY <1>5, <1>7, <3>1
    <2>5. Timed(token) => hi' + 1 = token.second[2] /\ lo' = token.first[2]
      BY <1>1, <1>5, <1>7 DEF EndsHeld, Timed
    <2>6. EndsHeld'
      BY <2>2, <2>3, <2>4, <2>5 DEF EndsHeld, Open, Timed
    <2> QED
      BY <1>1, <1>7, <2>1, <2>2, <2>6, GotoStep
  <1> QED
    BY <1>3, <1>4, <1>6, <1>7

LEMMA StartToBlock ==
  ASSUME IInv, start_to_block
  PROVE  IInv'
  <1> DEFINE b == block_at_timestamp(lo, head)
  <1>1. /\ TypeOK /\ EndsHeld /\ phase = "start" /\ at <= Len(Tokens(cmd))
        /\ lo \in Nat /\ hi \in Nat /\ head \in 0 .. MaxHead /\ head \in Nat /\ born \in 0 .. head
        /\ cmd.unit = "timestamp"
    BY ChainAssumption DEF IInv, start_to_block, InHand, TypeOK
  <1>2. token \in Token
    BY <1>1, TokenInHand
  <1>3. b \in Nat /\ (DistinctTimes => BlockAt(b, lo, head))
    BY <1>1, SearchFinds
  <1>4. CASE token.kind = "one"
    <2> DEFINE r == Ok(Numbers(<<b>>))
    <2>1. Parsed(r)
      BY <1>4 DEF start_to_block
    <2>2. r.val = Numbers(<<b>>)
      BY DEF Ok
    <2> HIDE DEF r, b
    <2>3. /\ r.val \in NumberChunk
          /\ ReachesHead(token, r.val)
          /\ TakesTimes(token, ToSet(values(r.val)))
      BY <1>2, <1>3, <1>4, <2>2, OneBlock
    <2> QED
      BY <1>1, <2>1, <2>3, ParsedStep
  <1>5. CASE token.kind # "one"
    <2>1. lo' = b /\ UNCHANGED hi /\ Goto("end")
      BY <1>5 DEF start_to_block
    <2> HIDE DEF b
    <2>2. phase' = "end" /\ UNCHANGED <<cmd, at, head, born>> /\ lo' \in Nat /\ hi' \in Nat
      BY <1>1, <1>3, <2>1 DEF Goto
    <2>3. token' = token
      BY <2>2 DEF token
    <2>4. Timed(token) /\ DistinctTimes => \E h \in born .. head : BlockAt(lo', token.first[2], h)
      <3> SUFFICES ASSUME Timed(token), DistinctTimes
                   PROVE  BlockAt(b, token.first[2], head) /\ head \in born .. head
        BY <2>1
      <3>1. lo = token.first[2]
        BY <1>1 DEF EndsHeld
      <3> QED
        BY <1>1, <1>3, <3>1
    <2>5. /\ Open(token) => \E h \in born .. head : hi' = TimeOf[h]
          /\ Timed(token) => hi' + 1 = token.second[2]
      BY <1>1, <2>1 DEF EndsHeld
    <2>6. EndsHeld'
      BY <2>2, <2>3, <2>4, <2>5 DEF EndsHeld, Open, Timed, BlockAt
    <2> QED
      BY <1>1, <2>1, <2>2, <2>6, GotoStep
  <1> QED
    BY <1>4, <1>5

LEMMA EndToBlock ==
  ASSUME IInv, end_to_block
  PROVE  IInv'
  <1> DEFINE to == block_at_timestamp(hi, head)
             whole == Tokens(cmd)[at].as_range
             r == block_range_to_block_chunk(lo, to, whole, token)
  <1>1. /\ TypeOK /\ EndsHeld /\ phase = "end" /\ at <= Len(Tokens(cmd))
        /\ lo \in Nat /\ hi \in Nat /\ head \in 0 .. MaxHead /\ head \in Nat /\ born \in 0 .. head
        /\ cmd.unit = "timestamp"
    BY ChainAssumption DEF IInv, end_to_block, InHand, TypeOK
  <1>2. token \in Token /\ whole \in BOOLEAN
    BY <1>1, TokenInHand
  <1>3. to \in Nat /\ to <= head /\ (DistinctTimes => BlockAt(to, hi, head))
    BY <1>1, SearchFinds
  <1>4. Parsed(r)
    BY DEF end_to_block
  <1>5. ASSUME r.ok
        PROVE  /\ r.val \in NumberChunk
               /\ token.kind = "range" => ToSet(values(r.val)) = lo .. to /\ max_value(r.val) = {to}
    <2>1. r = block_range_to_block_chunk(lo, to, whole, token)
      OBVIOUS
    <2> HIDE DEF whole, r, to
    <2>2. lo \in Nat /\ to \in Nat
      BY <1>1, <1>3
    <2> DEFINE t == token
    <2>3. t \in Token /\ r = block_range_to_block_chunk(lo, to, whole, t)
      BY <1>2, <2>1
    <2> HIDE DEF t
    <2>4. r.val \in NumberChunk /\ (t.kind = "range" => Spans(r.val, lo, to))
      BY <1>2, <1>5, <2>2, <2>3, RangeToChunk
    <2> QED
      BY <2>4 DEF t, Spans
  <1> HIDE DEF r, to, whole
  <1>6. r.ok => ReachesHead(token, r.val)
    <2> SUFFICES ASSUME r.ok, DistinctTimes, Open(token)
                 PROVE  \E m \in max_value(r.val) : born <= m /\ m <= head
      BY <1>1 DEF ReachesHead
    <2>1. max_value(r.val) = {to}
      BY <1>5 DEF Open
    <2>2. PICK h \in born .. head : hi = TimeOf[h]
      BY <1>1 DEF EndsHeld
    <2>3. h \in 0 .. head /\ TimeOf[h] \in Nat
      BY <1>1, ChainAssumption
    <2>4. ~(h > to)
      BY <1>3, <2>2, <2>3 DEF BlockAt
    <2>5. born <= to
      BY <1>1, <1>3, <2>3, <2>4
    <2> QED
      BY <1>3, <2>1, <2>5
  <1>7. r.ok => TakesTimes(token, ToSet(values(r.val)))
    <2> SUFFICES ASSUME r.ok, DistinctTimes, Timed(token)
                 PROVE  TakesTimes(token, ToSet(values(r.val)))
      BY DEF TakesTimes
    <2>1. ToSet(values(r.val)) = lo .. to
      BY <1>5 DEF Timed
    <2>2. PICK h \in born .. head : BlockAt(lo, token.first[2], h)
      BY <1>1 DEF EndsHeld
    <2>3. hi + 1 = token.second[2]
      BY <1>1 DEF EndsHeld
    <2>4. TakesTimes(token, lo .. to)
      BY <1>1, <1>2, <1>3, <2>2, <2>3, TimesTaken
    <2> QED
      BY <2>1, <2>4
  <1> QED
    BY <1>1, <1>4, <1>5, <1>6, <1>7, ParsedStep

(* The buffer is measured from the head apply_reorg_buffer reads; the head *)
(* only grows after that.                                                  *)
LEMMA ApplyReorgBuffer ==
  ASSUME IInv, apply_reorg_buffer
  PROVE  IInv'
  <1>1. CASE Fail
    BY <1>1, FailStep
  <1>2. CASE ~Fail
    <2> DEFINE m == head - cmd.reorg_buffer
    <2>1. /\ cmd.reorg_buffer <= head
          /\ chunks' = filter_old(chunks, m)
          /\ phase' = "partition"
          /\ UNCHANGED <<head, born, cmd, at, lo, hi, parsed, partitions>>
      BY <1>2 DEF apply_reorg_buffer
    <2>2. TypeOK /\ cmd.reorg_buffer \in Nat /\ head \in Nat /\ m \in Nat /\ chunks \in Seq(NumberChunk)
      BY <2>1, CommandsAssumption DEF IInv, TypeOK
    <2>3. chunks' \in Seq(Old(m))
      BY <2>1, <2>2, FilterOld
    <2>4. chunks' \in Seq(NumberChunk)
      <3>1. Old(m) \subseteq NumberChunk
        BY DEF Old
      <3> HIDE DEF m
      <3> QED
        BY <2>3, <3>1
    <2>5. TypeOK' /\ InHand' /\ EndsHeld'
      BY <2>1, <2>2, <2>4 DEF IInv, TypeOK, InHand, EndsHeld
    <2>6. \A i \in DOMAIN parsed' : AsNamed(i)'
      BY <2>1, <2>2, KeepsParsed
    <2>7. ASSUME NEW b \in ToSet(chunk_values(chunks')) PROVE b + cmd.reorg_buffer <= head
      <3>1. b \in Nat /\ \E i \in DOMAIN chunks' : b \in ToSet(values(chunks'[i]))
        <4>1. chunk_values(chunks') \in Seq(Nat)
          BY <2>4, ChunkLists
        <4>2. ToSet(chunk_values(chunks')) \subseteq Nat
          BY <4>1 DEF ToSet
        <4> QED
          BY <2>4, <4>2, ChunkLists
      <3>2. PICK i \in DOMAIN chunks' : b \in ToSet(values(chunks'[i]))
        BY <3>1
      <3>3. chunks'[i] \in Old(m)
        <4> HIDE DEF m
        <4> QED
          BY <2>3
      <3>4. PICK v \in max_value(chunks'[i]) : v <= m
        <4> HIDE DEF m
        <4> QED
          BY <3>3 DEF Old, old_enough
      <3>5. chunks'[i] \in NumberChunk
        BY <3>3 DEF Old
      <3>6. v \in Nat /\ b <= v
        BY <3>2, <3>5, ChunkValues
      <3> QED
        BY <2>2, <3>1, <3>4, <3>6
    <2>8. OldEnough'
      BY <2>1, <2>7 DEF OldEnough, AllValues
    <2> QED
      BY <2>5, <2>6, <2>8 DEF IInv
  <1> QED
    BY <1>1, <1>2

-----------------------------------------------------------------------------
(* Theorems                                                                *)

LEMMA InitInvariant ==
  ASSUME Init
  PROVE  IInv
  <1>1. TypeOK
    BY ChainAssumption DEF Init, TypeOK
  <1>2. InHand /\ EndsHeld /\ OldEnough
    BY DEF Init, InHand, EndsHeld, OldEnough
  <1>3. DOMAIN parsed = {}
    BY DEF Init
  <1> QED
    BY <1>1, <1>2, <1>3 DEF IInv

LEMMA NextInvariant ==
  ASSUME IInv, [Next]_vars
  PROVE  IInv'
  <1>1. CASE UNCHANGED vars
    <2>1. TypeOK' /\ InHand' /\ OldEnough'
      BY <1>1 DEF IInv, TypeOK, InHand, OldEnough, vars
    <2>2. EndsHeld'
      BY <1>1 DEF IInv, EndsHeld, token, vars
    <2>3. \A i \in DOMAIN parsed' : AsNamed(i)'
      BY <1>1 DEF IInv, AsNamed, ReachesHead, TakesTimes, vars
    <2> QED
      BY <2>1, <2>2, <2>3 DEF IInv
  <1>2. CASE Grow
    <2>1. /\ head < MaxHead /\ head' = head + 1
          /\ UNCHANGED <<born, cmd, phase, at, lo, hi, parsed, chunks, partitions>>
      BY <1>2 DEF Grow
    <2>2. TypeOK /\ head \in Nat /\ head' \in Nat /\ head <= head' /\ MaxHead \in Nat /\ born \in Nat
      BY <2>1, ChainAssumption DEF IInv, TypeOK
    <2>3. TypeOK'
      BY <2>1, <2>2 DEF TypeOK
    <2>4. InHand'
      BY <2>1 DEF IInv, InHand
    <2>5. EndsHeld'
      <3>1. born .. head \subseteq born .. head' /\ token' = token
        BY <2>1, <2>2 DEF token
      <3> QED
        BY <2>1, <3>1 DEF IInv, EndsHeld
    <2>6. \A i \in DOMAIN parsed' : AsNamed(i)'
      BY <2>1, <2>2, KeepsParsed
    <2>7. OldEnough'
      <3>1. ToSet(AllValues(chunks)) \subseteq Nat
        <4>1. chunk_values(chunks) \in Seq(Nat)
          BY ChunkLists DEF IInv, TypeOK
        <4> QED
          BY <4>1 DEF AllValues, ToSet
      <3>2. cmd.reorg_buffer \in Nat
        BY <2>2, CommandsAssumption DEF TypeOK
      <3>3. ASSUME NEW b \in ToSet(AllValues(chunks)), b + cmd.reorg_buffer <= head
            PROVE  b + cmd.reorg_buffer <= head'
        BY <2>1, <2>2, <3>1, <3>2, <3>3
      <3> QED
        BY <2>1, <3>3 DEF IInv, OldEnough
    <2> QED
      BY <2>3, <2>4, <2>5, <2>6, <2>7 DEF IInv
  <1>3. CASE rpc_error
    BY <1>3, FailStep DEF rpc_error
  <1>4. CASE files_only
    <2>1. /\ phase = "token" /\ phase' = "partition"
          /\ UNCHANGED <<head, born, cmd, at, lo, hi, parsed, chunks, partitions>>
      BY <1>4 DEF files_only, Goto
    <2>2. TypeOK /\ head \in Nat /\ chunks = <<>>
      BY <2>1 DEF IInv, TypeOK, InHand
    <2>3. TypeOK' /\ InHand' /\ EndsHeld'
      BY <2>1, <2>2 DEF TypeOK, InHand, EndsHeld
    <2>4. \A i \in DOMAIN parsed' : AsNamed(i)'
      BY <2>1, <2>2, KeepsParsed
    <2>5. ToSet(AllValues(chunks)) = {}
      <3>1. <<>> \in Seq(NumberChunk) /\ DOMAIN <<>> = {}
        OBVIOUS
      <3> QED
        BY <2>2, <3>1, ChunkLists DEF AllValues
    <2>6. OldEnough'
      BY <2>1, <2>5 DEF OldEnough
    <2> QED
      BY <2>3, <2>4, <2>6 DEF IInv
  <1>5. CASE postprocess
    <2>1. CASE Fail
      BY <2>1, FailStep
    <2>2. CASE ~Fail
      <3>1. /\ phase = "post" /\ align_and_split(parsed).ok
            /\ chunks' = align_and_split(parsed).val
            /\ phase' = IF cmd.reorg_buffer = 0 THEN "partition" ELSE "reorg"
            /\ UNCHANGED <<head, born, cmd, at, lo, hi, parsed, partitions>>
        BY <1>5, <2>2 DEF postprocess
      <3>2. TypeOK /\ head \in Nat /\ parsed \in Seq(NumberChunk) /\ cmd \in Commands
        BY DEF IInv, TypeOK
      <3>3. chunks' \in Seq(NumberChunk)
        BY <3>1, <3>2, AlignAndSplit
      <3>4. TypeOK' /\ InHand' /\ EndsHeld' /\ OldEnough'
        BY <3>1, <3>2, <3>3 DEF TypeOK, InHand, EndsHeld, OldEnough
      <3>5. \A i \in DOMAIN parsed' : AsNamed(i)'
        BY <3>1, <3>2, KeepsParsed
      <3> QED
        BY <3>4, <3>5 DEF IInv
    <2> QED
      BY <2>1, <2>2
  <1>6. CASE parse_partitions
    <2>1. CASE Fail
      BY <2>1, FailStep
    <2>2. CASE ~Fail
      <3>1. /\ phase = "partition" /\ phase' = "done"
            /\ UNCHANGED <<head, born, cmd, at, lo, hi, parsed, chunks>>
        BY <1>6, <2>2 DEF parse_partitions
      <3>2. TypeOK /\ head \in Nat
        BY DEF IInv, TypeOK
      <3>3. TypeOK' /\ InHand' /\ EndsHeld' /\ OldEnough'
        BY <3>1, <3>2 DEF IInv, TypeOK, InHand, EndsHeld, OldEnough
      <3>4. \A i \in DOMAIN parsed' : AsNamed(i)'
        BY <3>1, <3>2, KeepsParsed
      <3> QED
        BY <3>3, <3>4 DEF IInv
    <2> QED
      BY <2>1, <2>2
  <1>7. Done => UNCHANGED vars
    BY DEF Done
  <1> QED
    BY <1>1, <1>2, <1>3, <1>4, <1>5, <1>6, <1>7, ParseToken, ParseSecond, StartToBlock,
       EndToBlock, ApplyReorgBuffer DEF Next, Step

LEMMA InvariantHolds ==
  Spec => []IInv
  BY InitInvariant, NextInvariant, PTL DEF Spec

(***************************************************************************)
(* However long the chain and whatever was asked, no block an expression   *)
(* named is left in the chunks unless it is as old as --reorg-buffer asks: *)
(* apply_reorg_buffer measures by the last block of each chunk, and the    *)
(* head can only move on between that request and the collection.          *)
(***************************************************************************)
THEOREM OldEnoughTheorem ==
  Spec => []OldEnough
  <1>1. IInv => OldEnough
    BY DEF IInv
  <1> QED
    BY <1>1, InvariantHolds, PTL

(***************************************************************************)
(* For every chain, every growth of it and every list of expressions, the  *)
(* blocks parsed are natural numbers (no subtraction wraps), a range open  *)
(* at the end reaches a head between the command's start and now, and a    *)
(* range of times is covered by what the binary search of                  *)
(* block_at_timestamp finds, each end under a head of its own.             *)
(***************************************************************************)
THEOREM RangesTheorem ==
  Spec => []RangesCovered
  <1>1. IInv => RangesCovered
    <2> SUFFICES ASSUME IInv PROVE RangesCovered
      OBVIOUS
    <2>1. TypeOK /\ \A i \in DOMAIN parsed : AsNamed(i)
      BY DEF IInv
    <2>2. ToSet(AllValues(parsed)) \cup {lo, hi} \subseteq Nat
      <3>1. chunk_values(parsed) \in Seq(Nat)
        BY <2>1, ChunkLists DEF TypeOK
      <3> QED
        BY <2>1, <3>1 DEF AllValues, ToSet, TypeOK
    <2>3. OpenRangesReachTheHead
      BY <2>1 DEF OpenRangesReachTheHead, AsNamed, ReachesHead
    <2>4. TimesCovered
      BY <2>1 DEF TimesCovered, AsNamed, TakesTimes, Timed
    <2> QED
      BY <2>2, <2>3, <2>4 DEF RangesCovered
  <1> QED
    BY <1>1, InvariantHolds, PTL

-----------------------------------------------------------------------------
(* Blocks kept                                                             *)

\* Between postprocess and the partitions only a reorg buffer takes chunks away.
KeptInv ==
  /\ phase = "reorg" => cmd.reorg_buffer # 0
  /\ chunks # <<>> /\ cmd.reorg_buffer = 0 => Kept(chunks, parsed)

\* No chunk is cut while tokens are parsed.
LEMMA NoneCutYet ==
  ASSUME IInv, parse_token \/ parse_second \/ start_to_block \/ end_to_block
  PROVE  chunks' = <<>> /\ phase' # "reorg"
  <1>1. phase \in {"token", "second", "start", "end"}
    BY DEF parse_token, parse_second, start_to_block, end_to_block
  <1>2. chunks = <<>>
    BY <1>1 DEF IInv, InHand
  <1>3. Fail => chunks' = chunks /\ phase' # "reorg"
    BY DEF Fail
  <1>4. ASSUME NEW c, Parsed(c) PROVE chunks' = chunks /\ phase' # "reorg"
    BY <1>3, <1>4 DEF Parsed
  <1>5. ASSUME NEW p \in {"start", "second", "end"}, Goto(p) PROVE chunks' = chunks /\ phase' # "reorg"
    BY <1>5 DEF Goto
  <1>6. CASE parse_token
    BY <1>2, <1>3, <1>4, <1>5, <1>6 DEF parse_token
  <1>7. CASE parse_second
    BY <1>2, <1>3, <1>4, <1>5, <1>7 DEF parse_second
  <1>8. CASE start_to_block
    BY <1>2, <1>3, <1>4, <1>5, <1>8 DEF start_to_block
  <1>9. CASE end_to_block
    BY <1>2, <1>3, <1>4, <1>5, <1>9 DEF end_to_block
  <1> QED
    BY <1>6, <1>7, <1>8, <1>9

LEMMA KeptNext ==
  ASSUME IInv, KeptInv, [Next]_vars
  PROVE  KeptInv'
  <1>1. ASSUME cmd' = cmd, parsed' = parsed, chunks' = chunks, phase' = phase \/ phase' # "reorg"
        PROVE  KeptInv'
    BY <1>1 DEF KeptInv, Kept
  <1>2. Fail => KeptInv'
    BY <1>1 DEF Fail
  <1>3. CASE parse_token \/ parse_second \/ start_to_block \/ end_to_block
    BY <1>3, NoneCutYet DEF KeptInv
  <1>4. CASE postprocess
    <2>1. CASE Fail
      BY <1>2, <2>1
    <2>2. CASE ~Fail
      <3>1. /\ align_and_split(parsed).ok /\ chunks' = align_and_split(parsed).val
            /\ phase' = IF cmd.reorg_buffer = 0 THEN "partition" ELSE "reorg"
            /\ cmd' = cmd /\ parsed' = parsed
        BY <1>4, <2>2 DEF postprocess
      <3>2. parsed \in Seq(NumberChunk) /\ cmd \in Commands
        BY DEF IInv, TypeOK
      <3>3. Kept(chunks', parsed)
        BY <3>1, <3>2, AlignAndSplit
      <3>4. Kept(chunks, parsed)'
        BY <3>1, <3>3 DEF Kept
      <3> QED
        BY <3>1, <3>4 DEF KeptInv
    <2> QED
      BY <2>1, <2>2
  <1>5. CASE apply_reorg_buffer
    <2>1. CASE Fail
      BY <1>2, <2>1
    <2>2. CASE ~Fail
      <3>1. phase = "reorg" /\ phase' = "partition" /\ cmd' = cmd
        BY <1>5, <2>2 DEF apply_reorg_buffer
      <3> QED
        BY <3>1 DEF KeptInv
    <2> QED
      BY <2>1, <2>2
  <1>6. CASE parse_partitions
    <2>1. CASE Fail
      BY <1>2, <2>1
    <2>2. CASE ~Fail
      BY <1>1, <1>6, <2>2 DEF parse_partitions
    <2> QED
      BY <2>1, <2>2
  <1>7. CASE Grow
    BY <1>1, <1>7 DEF Grow
  <1>8. CASE rpc_error
    BY <1>2, <1>8 DEF rpc_error
  <1>9. CASE files_only
    BY <1>1, <1>9 DEF files_only, Goto
  <1>10. CASE Done \/ UNCHANGED vars
    BY <1>1, <1>10 DEF Done, vars
  <1> QED
    BY <1>3, <1>4, <1>5, <1>6, <1>7, <1>8, <1>9, <1>10 DEF Next, Step

(***************************************************************************)
(* For any list of chunks, chunk size and count: to_single_chunk and the   *)
(* loops of subchunk_by_size and subchunk_by_count keep every block, its   *)
(* place and its repetitions; align only drops blocks, and the ranges cut  *)
(* after it start at multiples of the chunk size.                          *)
(***************************************************************************)
THEOREM ChunksTheorem ==
  Spec => []ChunksKeepBlocks
  <1>1. Init => KeptInv
    BY DEF Init, KeptInv
  <1>2. IInv /\ KeptInv /\ [Next]_vars => KeptInv'
    BY KeptNext
  <1>3. KeptInv => ChunksKeepBlocks
    BY DEF KeptInv, Kept, ChunksKeepBlocks, AllValues
  <1> QED
    BY <1>1, <1>2, <1>3, InvariantHolds, PTL DEF Spec
=============================================================================
