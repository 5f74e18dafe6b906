-------------------------- MODULE InductionLemmas --------------------------
(***************************************************************************)
(* Induction and recursion over the natural numbers stated about SETS, so  *)
(* that a first-order prover can use them: the least element of a set of   *)
(* numbers, and the existence of a function defined by recursion along a   *)
(* measure.  From them, what the sequence operators of the command-line    *)
(* parser return.                                                          *)
(***************************************************************************)
EXTENDS Integers, Sequences, SequencesExt, FiniteSetsExt, SequenceTheorems,
        FiniteSetTheorems, WellFoundedInduction, TLAPS

LEMMA LeastNatural ==
  ASSUME NEW T, T \subseteq Nat, T # {}
  PROVE  \E m \in T : \A n \in T : m <= n
  <1> DEFINE R == {ss \in Nat \X Nat : ss[1] < ss[2]}
  <1>1. R = OpToRel(<, Nat)
    BY DEF OpToRel
  <1>2. IsWellFoundedOn(R, Nat)
    BY <1>1, NatLessThanWellFounded
  <1> HIDE DEF R
  <1>3. PICK m \in T : \A n \in T : ~(<<n, m>> \in R)
    BY <1>2, WFMin
  <1>4. \A n \in T : ~(n < m)
    BY <1>3 DEF R
  <1> QED
    BY <1>4

LEMMA SetInduction ==
  ASSUME NEW T, 0 \in T, \A n \in Nat : n \in T => n + 1 \in T
  PROVE  Nat \subseteq T
  <1> SUFFICES ASSUME Nat \ T # {} PROVE FALSE
    OBVIOUS
  <1>1. PICK m \in Nat \ T : \A n \in Nat \ T : m <= n
    BY LeastNatural
  <1>2. m # 0
    OBVIOUS
  <1>3. m - 1 \in Nat /\ ~(m <= m - 1) /\ (m - 1) + 1 = m
    BY <1>2
  <1> QED
    BY <1>1, <1>3

(* A set of indices without a first one is empty.                          *)
LEMMA NoFirst ==
  ASSUME NEW a \in Nat, NEW n \in Nat, NEW T, T \subseteq a .. n,
         \A m \in a .. n : (m # a => m - 1 \notin T) => m \notin T
  PROVE  T = {}
  <1> SUFFICES ASSUME T # {} PROVE FALSE
    OBVIOUS
  <1>1. PICK m \in T : \A i \in T : m <= i
    <2>1. T \subseteq Nat
      OBVIOUS
    <2> QED
      BY <2>1, LeastNatural
  <1>2. m \in Nat /\ ~(m <= m - 1)
    OBVIOUS
  <1> QED
    BY <1>1, <1>2

-----------------------------------------------------------------------------
(* A finite sequence of values, each computed from the one before.         *)
Iterations(n, X, x0, h) ==
  {f \in [0 .. n -> X] : f[0] = x0 /\ \A i \in 1 .. n : f[i] = h[f[i - 1]]}

LEMMA Iteration ==
  ASSUME NEW n \in Nat, NEW X, NEW x0 \in X, NEW h \in [X -> X]
  PROVE  Iterations(n, X, x0, h) # {}
  <1> DEFINE Good(k, f) == f[0] = x0 /\ \A i \in 1 .. k : f[i] = h[f[i - 1]]
             T == {k \in Nat : \E f \in [0 .. k -> X] : Good(k, f)}
  <1>1. 0 \in T
    <2> DEFINE f == [i \in 0 .. 0 |-> x0]
    <2>1. f \in [0 .. 0 -> X] /\ Good(0, f)
      OBVIOUS
    <2> HIDE DEF f, Good
    <2> QED
      BY <2>1
  <1>2. ASSUME NEW k \in Nat, k \in T PROVE k + 1 \in T
    <2>1. PICK f \in [0 .. k -> X] : Good(k, f)
      BY <1>2
    <2> DEFINE g == [i \in 0 .. k + 1 |-> IF i <= k THEN f[i] ELSE h[f[i - 1]]]
    <2>2. g \in [0 .. k + 1 -> X]
      OBVIOUS
    <2>3. g[0] = x0
      BY <2>1
    <2>4. ASSUME NEW i \in 1 .. k + 1 PROVE g[i] = h[g[i - 1]]
      <3>1. g[i - 1] = f[i - 1]
        OBVIOUS
      <3> QED
        BY <3>1, <2>1
    <2>5. Good(k + 1, g)
      <3> HIDE DEF g
      <3> QED
        BY <2>3, <2>4
    <2> HIDE DEF g, Good
    <2> QED
      BY <2>2, <2>5
  <1> HIDE DEF T
  <1>3. Nat \subseteq T
    BY <1>1, <1>2, SetInduction
  <1>4. PICK f \in [0 .. n -> X] : Good(n, f)
    BY <1>3 DEF T
  <1> QED
    BY <1>4 DEF Iterations

(* The function that is defined by recursion from arguments of smaller     *)
(* measure exists: it is what enough rounds of its equation settle on.     *)
Recursive(D, X, H) == {f \in [D -> X] : \A d \in D : f[d] = H[<<d, f>>]}

OnlySmaller(D, X, mu, H) ==
  \A d \in D : \A f, g \in [D -> X] :
    (\A e \in D : mu[e] < mu[d] => f[e] = g[e]) => H[<<d, f>>] = H[<<d, g>>]

LEMMA MeasureRecursion ==
  ASSUME NEW D, NEW X, NEW x0 \in X, NEW b \in Nat,
         NEW mu \in [D -> 0 .. b],
         NEW H \in [D \X [D -> X] -> X],
         OnlySmaller(D, X, mu, H)
  PROVE  Recursive(D, X, H) # {}
  <1> DEFINE Y == [D -> X]
             h == [f \in Y |-> [d \in D |-> H[<<d, f>>]]]
             start == [d \in D |-> x0]
  <1>1. start \in Y /\ h \in [Y -> Y] /\ b + 2 \in Nat
    OBVIOUS
  <1>2. PICK F \in [0 .. b + 2 -> Y] : \A i \in 1 .. b + 2 : F[i] = h[F[i - 1]]
    <2> HIDE DEF Y, h, start
    <2> DEFINE n == b + 2
    <2>1. n \in Nat
      BY <1>1
    <2> HIDE DEF n
    <2>2. Iterations(n, Y, start, h) # {}
      BY <1>1, <2>1, Iteration
    <2> QED
      BY <2>2 DEF n, Iterations
  <1>3. \A i \in 0 .. b + 1 : F[i] \in Y /\ F[i + 1] \in Y /\ \A d \in D : F[i + 1][d] = H[<<d, F[i]>>]
    <2> TAKE i \in 0 .. b + 1
    <2>1. i + 1 \in 1 .. b + 2 /\ i \in 0 .. b + 2 /\ i + 1 \in 0 .. b + 2 /\ (i + 1) - 1 = i
      OBVIOUS
    <2>2. F[i] \in Y /\ F[i + 1] \in Y /\ F[i + 1] = h[F[i]]
      <3> HIDE DEF Y, h
      <3> QED
        BY <1>2, <2>1
    <2> QED
      BY <2>2
  <1> DEFINE T == {k \in Nat : k <= b + 1 => \A d \in D : mu[d] < k => F[k + 1][d] = F[k][d]}
  <1>4. 0 \in T
    OBVIOUS
  <1>5. ASSUME NEW k \in Nat, k \in T PROVE k + 1 \in T
    <2> SUFFICES ASSUME k + 1 <= b + 1, NEW d \in D, mu[d] < k + 1
                 PROVE  F[(k + 1) + 1][d] = F[k + 1][d]
      OBVIOUS
    <2>1. k \in 0 .. b + 1 /\ k + 1 \in 0 .. b + 1
      OBVIOUS
    <2>2. \A e \in D : mu[e] < mu[d] => F[k + 1][e] = F[k][e]
      <3> SUFFICES ASSUME NEW e \in D, mu[e] < mu[d] PROVE F[k + 1][e] = F[k][e]
        OBVIOUS
      <3>1. mu[e] < k /\ k <= b + 1
        <4>1. mu[e] \in Nat /\ mu[d] \in Nat
          OBVIOUS
        <4> QED
          BY <4>1
      <3> QED
        BY <3>1, <1>5
    <2>3. H[<<d, F[k + 1]>>] = H[<<d, F[k]>>]
      <3>1. F[k] \in [D -> X] /\ F[k + 1] \in [D -> X]
        BY <1>3, <2>1
      <3> QED
        BY <2>2, <3>1 DEF OnlySmaller
    <2>4. F[(k + 1) + 1][d] = H[<<d, F[k + 1]>>] /\ F[k + 1][d] = H[<<d, F[k]>>]
      BY <1>3, <2>1
    <2> QED
      BY <2>3, <2>4
  <1>6. b + 1 \in T
    <2> HIDE DEF T
    <2>1. Nat \subseteq T
      BY <1>4, <1>5, SetInduction
    <2> QED
      BY <2>1
  <1>7. \A d \in D : F[(b + 1) + 1][d] = F[b + 1][d]
    <2>1. \A d \in D : mu[d] < b + 1
      <3> TAKE d \in D
      <3>1. mu[d] \in 0 .. b
        OBVIOUS
      <3> QED
        BY <3>1
    <2> QED
      BY <1>6, <2>1
  <1>8. b + 1 \in 0 .. b + 1
    OBVIOUS
  <1>9. F[b + 1] \in Y /\ \A d \in D : F[b + 1][d] = H[<<d, F[b + 1]>>]
    BY <1>3, <1>7, <1>8
  <1> QED
    BY <1>9 DEF Recursive

(* A finite sequence of values, each computed from the one before and its  *)
(* place: what a loop over n elements computes.                            *)
Foldings(n, X, x0, h) ==
  {f \in [0 .. n -> X] : f[0] = x0 /\ \A i \in 1 .. n : f[i] = h[<<i, f[i - 1]>>]}

LEMMA Folding ==
  ASSUME NEW n \in Nat, NEW X, NEW x0 \in X, NEW h \in [(1 .. n) \X X -> X]
  PROVE  Foldings(n, X, x0, h) # {}
  <1> DEFINE D == 0 .. n
             mu == [i \in D |-> i]
             H == [p \in D \X [D -> X] |->
                     IF p[1] = 0 THEN x0 ELSE h[<<p[1], p[2][p[1] - 1]>>]]
  <1>1. mu \in [D -> 0 .. n]
    OBVIOUS
  <1>2. \A i \in D : i # 0 => i \in 1 .. n /\ i - 1 \in D /\ i - 1 < i
    OBVIOUS
  <1>3. \A i \in D, f \in [D -> X] :
          H[<<i, f>>] = IF i = 0 THEN x0 ELSE h[<<i, f[i - 1]>>]
    OBVIOUS
  <1>4. H \in [D \X [D -> X] -> X]
    <2> SUFFICES ASSUME NEW i \in D, NEW f \in [D -> X]
                 PROVE  (IF i = 0 THEN x0 ELSE h[<<i, f[i - 1]>>]) \in X
      OBVIOUS
    <2> HIDE DEF D
    <2> QED
      BY <1>2
  <1>5. OnlySmaller(D, X, mu, H)
    <2> SUFFICES ASSUME NEW d \in D, NEW f \in [D -> X], NEW g \in [D -> X],
                        \A e \in D : mu[e] < mu[d] => f[e] = g[e]
                 PROVE  H[<<d, f>>] = H[<<d, g>>]
      BY DEF OnlySmaller
    <2>1. d # 0 => f[d - 1] = g[d - 1]
      BY <1>2
    <2> HIDE DEF H, D
    <2> QED
      BY <1>3, <2>1
  <1>6. PICK f \in [D -> X] : \A d \in D : f[d] = H[<<d, f>>]
    <2> HIDE DEF D, mu, H
    <2>1. Recursive(D, X, H) # {}
      BY <1>1, <1>4, <1>5, MeasureRecursion
    <2> QED
      BY <2>1 DEF Recursive
  <1>7. \A i \in D : f[i] = IF i = 0 THEN x0 ELSE h[<<i, f[i - 1]>>]
    <2> HIDE DEF H, D
    <2> QED
      BY <1>3, <1>6
  <1>8. f[0] = x0
    <2>1. 0 \in D
      OBVIOUS
    <2> QED
      BY <1>7, <2>1, Zenon
  <1>9. ASSUME NEW i \in 1 .. n PROVE f[i] = h[<<i, f[i - 1]>>]
    <2>1. i \in D /\ i # 0
      OBVIOUS
    <2> QED
      BY <1>7, <2>1, Zenon
  <1> QED
    BY <1>6, <1>8, <1>9 DEF Foldings

-----------------------------------------------------------------------------
(* FlattenSeq                                                              *)

Flattens(f, seqs) ==
  f = [i \in 1 .. Len(seqs) |-> IF i = 1 THEN seqs[i] ELSE f[i - 1] \o seqs[i]]

LEMMA FlattenUnfold ==
  ASSUME NEW S, NEW seqs \in Seq(Seq(S)), Len(seqs) # 0
  PROVE  \E f \in [1 .. Len(seqs) -> Seq(S)] :
           Flattens(f, seqs) /\ FlattenSeq(seqs) = f[Len(seqs)]
  <1> DEFINE n == Len(seqs)
             D == 1 .. n
             X == Seq(S)
             mu == [i \in D |-> i]
             H == [p \in D \X [D -> X] |->
                     IF p[1] = 1 THEN seqs[p[1]] ELSE p[2][p[1] - 1] \o seqs[p[1]]]
  <1>1. n \in Nat \ {0} /\ <<>> \in X /\ mu \in [D -> 0 .. n]
    OBVIOUS
  <1>2. \A i \in D : seqs[i] \in X
    OBVIOUS
  <1>3. \A i \in D : i # 1 => i - 1 \in D /\ i - 1 < i
    BY <1>1
  <1>4. H \in [D \X [D -> X] -> X]
    <2> SUFFICES ASSUME NEW i \in D, NEW f \in [D -> X]
                 PROVE  (IF i = 1 THEN seqs[i] ELSE f[i - 1] \o seqs[i]) \in X
      OBVIOUS
    <2>1. CASE i = 1
      BY <1>2, <2>1
    <2>2. CASE i # 1
      <3>1. f[i - 1] \in Seq(S) /\ seqs[i] \in Seq(S)
        BY <1>2, <1>3, <2>2
      <3> QED
        BY <2>2, <3>1
    <2> QED
      BY <2>1, <2>2
  <1>5. \A i \in D, f \in [D -> X] :
          H[<<i, f>>] = IF i = 1 THEN seqs[i] ELSE f[i - 1] \o seqs[i]
    OBVIOUS
  <1>6. OnlySmaller(D, X, mu, H)
    <2> SUFFICES ASSUME NEW d \in D, NEW f \in [D -> X], NEW g \in [D -> X],
                        \A e \in D : mu[e] < mu[d] => f[e] = g[e]
                 PROVE  H[<<d, f>>] = H[<<d, g>>]
      BY DEF OnlySmaller
    <2>1. d # 1 => f[d - 1] = g[d - 1]
      BY <1>3
    <2> HIDE DEF H, D, X
    <2> QED
      BY <1>5, <2>1
  <1>7. PICK f \in [D -> X] : \A d \in D : f[d] = H[<<d, f>>]
    <2> HIDE DEF D, X, mu, H, n
    <2>1. Recursive(D, X, H) # {}
      BY <1>1, <1>4, <1>6, MeasureRecursion
    <2> QED
      BY <2>1 DEF Recursive
  <1>8. Flattens(f, seqs)
    <2>1. \A i \in D : f[i] = IF i = 1 THEN seqs[i] ELSE f[i - 1] \o seqs[i]
      <3> HIDE DEF H, D, X
      <3> QED
        BY <1>5, <1>7
    <2> QED
      BY <2>1 DEF Flattens
  <1>9. ASSUME NEW g, Flattens(g, seqs) PROVE g = f
    <2> DEFINE T == {i \in D : g[i] # f[i]}
    <2>1. \A i \in D : /\ g[i] = IF i = 1 THEN seqs[i] ELSE g[i - 1] \o seqs[i]
                       /\ f[i] = IF i = 1 THEN seqs[i] ELSE f[i - 1] \o seqs[i]
      BY <1>8, <1>9 DEF Flattens
    <2>2. ASSUME NEW m \in D, m # 1 => m - 1 \notin T PROVE m \notin T
      <3>1. m # 1 => g[m - 1] = f[m - 1]
        BY <1>3, <2>2
      <3>2. g[m] = f[m]
        BY <2>1, <3>1
      <3> QED
        BY <3>2
    <2>3. T = {}
      <3>1. T \subseteq D
        OBVIOUS
      <3> HIDE DEF T, n
      <3> QED
        BY <1>1, <2>2, <3>1, NoFirst
    <2>4. \A i \in D : g[i] = f[i]
      BY <2>3
    <2>5. g = [i \in D |-> g[i]] /\ f = [i \in D |-> f[i]]
      <3>1. g = [i \in D |-> IF i = 1 THEN seqs[i] ELSE g[i - 1] \o seqs[i]]
        BY <1>9 DEF Flattens
      <3> QED
        BY <2>1, <3>1
    <2> QED
      BY <2>4, <2>5
  <1>10. FlattenSeq(seqs) = (CHOOSE g : Flattens(g, seqs))[n]
    BY <1>1 DEF FlattenSeq, Flattens
  <1>11. (CHOOSE g : Flattens(g, seqs)) = f
    <2>1. Flattens(CHOOSE g : Flattens(g, seqs), seqs)
      BY <1>8
    <2> QED
      BY <1>9, <2>1
  <1> QED
    BY <1>8, <1>10, <1>11

(* What is in a flattened sequence is in one of its parts.                 *)
LEMMA FlattenElements ==
  ASSUME NEW S, NEW seqs \in Seq(Seq(S))
  PROVE  /\ FlattenSeq(seqs) \in Seq(S)
         /\ \A k \in DOMAIN FlattenSeq(seqs) :
              \E i \in DOMAIN seqs : \E j \in DOMAIN seqs[i] : FlattenSeq(seqs)[k] = seqs[i][j]
  <1>1. CASE Len(seqs) = 0
    <2>1. seqs = <<>>
      BY <1>1
    <2> QED
      BY <1>1, <2>1 DEF FlattenSeq
  <1>2. CASE Len(seqs) # 0
    <2> DEFINE n == Len(seqs)
    <2>1. PICK f \in [1 .. n -> Seq(S)] : Flattens(f, seqs) /\ FlattenSeq(seqs) = f[n]
      BY <1>2, FlattenUnfold
    <2> DEFINE In(s, m) == \A k \in DOMAIN s : \E i \in 1 .. m : \E j \in DOMAIN seqs[i] : s[k] = seqs[i][j]
               T == {m \in 1 .. n : ~In(f[m], m)}
    <2>2. n \in Nat \ {0} /\ \A i \in 1 .. n : seqs[i] \in Seq(S)
      BY <1>2
    <2>3. ASSUME NEW m \in 1 .. n, m # 1 => m - 1 \notin T PROVE m \notin T
      <3>1. CASE m = 1
        <4>1. f[m] = seqs[1]
          BY <2>1, <2>2, <3>1 DEF Flattens
        <4> QED
          BY <2>2, <3>1, <4>1
      <3>2. CASE m # 1
        <4>1. m \in Nat /\ m - 1 \in 1 .. n /\ m - 1 < m
          BY <2>2, <3>2
        <4>2. In(f[m - 1], m - 1)
          BY <2>3, <3>2, <4>1
        <4> DEFINE a == f[m - 1]
                   b == seqs[m]
                   c == f[m]
        <4>3. c = a \o b
          BY <2>1, <3>2 DEF Flattens
        <4>4. a \in Seq(S) /\ b \in Seq(S)
          BY <2>2, <4>1
        <4>5. ASSUME NEW k \in DOMAIN c
              PROVE  \E i \in 1 .. m : \E j \in DOMAIN seqs[i] : c[k] = seqs[i][j]
          <5> HIDE DEF c, a
          <5>1. k \in 1 .. Len(a) + Len(b)
            <6> HIDE DEF b
            <6> QED
              BY <4>3, <4>4, <4>5
          <5>2. CASE k <= Len(a)
            <6>1. k \in DOMAIN a /\ c[k] = a[k]
              <7> HIDE DEF b
              <7> QED
                BY <4>3, <4>4, <5>1, <5>2
            <6>2. PICK i \in 1 .. m - 1 : \E j \in DOMAIN seqs[i] : a[k] = seqs[i][j]
              BY <4>2, <6>1 DEF a
            <6>3. i \in 1 .. m
              BY <4>1, <6>2
            <6> QED
              BY <6>1, <6>2, <6>3
          <5>3. CASE ~(k <= Len(a))
            <6>1. k - Len(a) \in DOMAIN b /\ c[k] = b[k - Len(a)]
              <7> HIDE DEF b
              <7> QED
                BY <4>3, <4>4, <5>1, <5>3
            <6>2. m \in 1 .. m
              BY <4>1
            <6> QED
              BY <6>1, <6>2
          <5> QED
            BY <5>2, <5>3
        <4> QED
          BY <4>5
      <3> QED
        BY <3>1, <3>2
    <2>4. T = {}
      <3>1. T \subseteq 1 .. n
        OBVIOUS
      <3> HIDE DEF T, n
      <3> QED
        BY <2>2, <2>3, <3>1, NoFirst
    <2>5. n \in 1 .. n
      BY <2>2
    <2>6. f[n] \in Seq(S) /\ In(f[n], n)
      BY <2>4, <2>5
    <2> QED
      BY <2>1, <2>2, <2>6
  <1> QED
    BY <1>1, <1>2

(* The concatenation of the first m parts.                                 *)
Flat(seqs) == [m \in 0 .. Len(seqs) |-> FlattenSeq(SubSeq(seqs, 1, m))]

Accumulates(F, seqs, S) ==
  /\ F \in [0 .. Len(seqs) -> Seq(S)]
  /\ F[0] = <<>>
  /\ F[Len(seqs)] = FlattenSeq(seqs)
  /\ \A m \in 1 .. Len(seqs) : F[m] = F[m - 1] \o seqs[m]

LEMMA FlatSteps ==
  ASSUME NEW S, NEW seqs \in Seq(Seq(S))
  PROVE  Accumulates(Flat(seqs), seqs, S)
  <1> DEFINE n == Len(seqs)
             part(m) == SubSeq(seqs, 1, m)
  <1>1. n \in Nat /\ \A m \in 0 .. n : Flat(seqs)[m] = FlattenSeq(part(m))
    BY DEF Flat
  <1>2. \A m \in 0 .. n : /\ part(m) \in Seq(Seq(S)) /\ Len(part(m)) = m
                          /\ \A i \in 1 .. m : part(m)[i] = seqs[i]
    OBVIOUS
  <1>3. part(n) = seqs
    OBVIOUS
  <1>4. FlattenSeq(part(0)) = <<>>
    <2>1. part(0) = <<>>
      BY <1>1, <1>2
    <2> QED
      BY <2>1 DEF FlattenSeq
  <1>5. \A m \in 0 .. n : FlattenSeq(part(m)) \in Seq(S)
    <2> HIDE DEF n, part
    <2> QED
      BY <1>2, FlattenElements
  <1>6. ASSUME NEW m \in 1 .. n
        PROVE  FlattenSeq(part(m)) = FlattenSeq(part(m - 1)) \o seqs[m]
    <2>1. n \in Nat \ {0} /\ n # 0 /\ m \in Nat /\ m \in 0 .. n /\ m - 1 \in 0 .. n /\ m # 0
      BY <1>1
    <2>2. PICK f \in [1 .. n -> Seq(S)] : Flattens(f, seqs) /\ FlattenSeq(seqs) = f[n]
      BY <2>1, FlattenUnfold
    <2>3. ASSUME NEW k \in 1 .. n PROVE FlattenSeq(part(k)) = f[k]
      <3> DEFINE p == part(k)
      <3>1. k \in Nat /\ k # 0 /\ k \in 0 .. n /\ p \in Seq(Seq(S)) /\ Len(p) = k
        BY <1>1, <1>2
      <3>2. \A i \in 1 .. k : p[i] = seqs[i]
        BY <1>2, <3>1
      <3> HIDE DEF p
      <3>3. PICK g \in [1 .. Len(p) -> Seq(S)] : Flattens(g, p) /\ FlattenSeq(p) = g[Len(p)]
        BY <3>1, FlattenUnfold
      <3> DEFINE T == {i \in 1 .. k : g[i] # f[i]}
      <3>4. ASSUME NEW i \in 1 .. k
            PROVE  /\ g[i] = IF i = 1 THEN seqs[i] ELSE g[i - 1] \o seqs[i]
                   /\ f[i] = IF i = 1 THEN seqs[i] ELSE f[i - 1] \o seqs[i]
        <4>1. i \in 1 .. n /\ i \in 1 .. Len(p)
          BY <1>1, <3>1
        <4>2. g[i] = IF i = 1 THEN p[i] ELSE g[i - 1] \o p[i]
          BY <3>3, <4>1 DEF Flattens
        <4>3. f[i] = IF i = 1 THEN seqs[i] ELSE f[i - 1] \o seqs[i]
          BY <2>2, <4>1 DEF Flattens
        <4> QED
          BY <3>2, <4>2, <4>3
      <3>5. ASSUME NEW i \in 1 .. k, i # 1 => i - 1 \notin T PROVE i \notin T
        <4>1. i # 1 => i - 1 \in 1 .. k
          BY <3>1
        <4>2. i # 1 => g[i - 1] = f[i - 1]
          BY <3>5, <4>1
        <4> QED
          BY <3>4, <4>2
      <3>6. T = {}
        <4>1. T \subseteq 1 .. k
          OBVIOUS
        <4> HIDE DEF T
        <4> QED
          BY <3>1, <3>5, <4>1, NoFirst
      <3>7. g[k] = f[k]
        BY <3>1, <3>6
      <3> QED
        BY <3>1, <3>3, <3>7 DEF p
    <2>4. m = 1 => f[m] = seqs[m]
      BY <2>2 DEF Flattens
    <2>5. m # 1 => m - 1 \in 1 .. n /\ f[m] = f[m - 1] \o seqs[m]
      <3>1. f[m] = IF m = 1 THEN seqs[m] ELSE f[m - 1] \o seqs[m]
        BY <2>2, Zenon DEF Flattens
      <3>2. m # 1 => m - 1 \in 1 .. n
        BY <2>1
      <3> QED
        BY <3>1, <3>2, Zenon
    <2>6. seqs[m] \in Seq(S)
      OBVIOUS
    <2>7. CASE m = 1
      <3>1. FlattenSeq(part(m - 1)) = <<>>
        <4>1. m - 1 = 0
          BY <2>7
        <4> QED
          BY <1>4, <4>1
      <3>2. FlattenSeq(part(m)) = seqs[m]
        BY <2>3, <2>4, <2>7
      <3>3. \A z \in Seq(S) : z = <<>> \o z
        OBVIOUS
      <3> QED
        BY <2>6, <3>1, <3>2, <3>3
    <2>8. CASE m # 1
      <3>1. FlattenSeq(part(m)) = f[m] /\ FlattenSeq(part(m - 1)) = f[m - 1]
        BY <2>3, <2>5, <2>8
      <3> QED
        BY <2>5, <2>8, <3>1
    <2> QED
      BY <2>7, <2>8
  <1> HIDE DEF part
  <1>7. Flat(seqs) \in [0 .. n -> Seq(S)]
    BY <1>5 DEF Flat, part
  <1>8. ASSUME NEW m \in 1 .. n PROVE Flat(seqs)[m] = Flat(seqs)[m - 1] \o seqs[m]
    <2>1. m \in 0 .. n /\ m - 1 \in 0 .. n
      BY <1>1
    <2> QED
      BY <1>1, <1>6, <2>1
  <1>9. 0 \in 0 .. n /\ n \in 0 .. n
    BY <1>1
  <1>10. Flat(seqs)[0] = <<>> /\ Flat(seqs)[n] = FlattenSeq(seqs)
    BY <1>1, <1>3, <1>4, <1>9
  <1> QED
    BY <1>7, <1>8, <1>10, Zenon DEF Accumulates

(* Where part i starts in the concatenation.                               *)
Offset(seqs, i) == Len(Flat(seqs)[i - 1])

(* The parts follow each other without a gap.                              *)
LEMMA FlatGrows ==
  ASSUME NEW S, NEW seqs \in Seq(Seq(S)),
         NEW i \in 0 .. Len(seqs), NEW j \in 0 .. Len(seqs), i <= j
  PROVE  /\ Len(Flat(seqs)[i]) <= Len(Flat(seqs)[j])
         /\ \A k \in 1 .. Len(Flat(seqs)[i]) : Flat(seqs)[j][k] = Flat(seqs)[i][k]
  <1> DEFINE n == Len(seqs)
             F == Flat(seqs)
             Keeps(m) == /\ Len(F[i]) <= Len(F[m])
                         /\ \A k \in 1 .. Len(F[i]) : F[m][k] = F[i][k]
             T == {m \in i .. n : ~Keeps(m)}
  <1>0. /\ F \in [0 .. n -> Seq(S)]
        /\ \A m \in 1 .. n : F[m] = F[m - 1] \o seqs[m]
    BY FlatSteps, Zenon DEF Accumulates
  <1>1. n \in Nat /\ i \in Nat /\ j \in i .. n
    OBVIOUS
  <1>01. \A m \in 1 .. n : seqs[m] \in Seq(S)
    OBVIOUS
  <1> HIDE DEF F
  <1>2. ASSUME NEW m \in i .. n, m # i => m - 1 \notin T PROVE m \notin T
    <2>1. CASE m = i
      <3>1. F[i] \in Seq(S)
        BY <1>0
      <3>2. Len(F[i]) \in Nat
        BY <3>1
      <3> QED
        BY <2>1, <3>2
    <2>2. CASE m # i
      <3>1. m - 1 \in i .. n /\ m \in 1 .. n /\ m - 1 \in 0 .. n /\ i \in 0 .. n
        BY <1>1, <2>2
      <3>2. Keeps(m - 1)
        BY <1>2, <2>2, <3>1
      <3> DEFINE x == F[m - 1]
                 y == seqs[m]
                 z == F[i]
      <3>3. x \in Seq(S) /\ y \in Seq(S) /\ z \in Seq(S) /\ F[m] = x \o y
        BY <1>0, <1>01, <3>1, Zenon
      <3>4. Len(z) <= Len(x) /\ \A k \in 1 .. Len(z) : x[k] = z[k]
        BY <3>2
      <3> HIDE DEF x, y, z
      <3>5. Len(z) <= Len(x \o y) /\ \A k \in 1 .. Len(z) : (x \o y)[k] = z[k]
        BY <3>3, <3>4
      <3>6. Keeps(m)
        BY <3>3, <3>5 DEF z
      <3> QED
        BY <3>6
    <2> QED
      BY <2>1, <2>2
  <1>3. T = {}
    <2>1. T \subseteq i .. n
      OBVIOUS
    <2> HIDE DEF T, n
    <2> QED
      BY <1>1, <1>2, <2>1, NoFirst
  <1>4. Keeps(j)
    BY <1>1, <1>3
  <1> QED
    BY <1>4 DEF F

(* Element j of part i is found where the parts before it end.             *)
LEMMA FlatPlace ==
  ASSUME NEW S, NEW seqs \in Seq(Seq(S)),
         NEW i \in 1 .. Len(seqs), NEW j \in 1 .. Len(seqs[i])
  PROVE  /\ Offset(seqs, i) \in Nat
         /\ Offset(seqs, i) + j \in 1 .. Len(FlattenSeq(seqs))
         /\ FlattenSeq(seqs)[Offset(seqs, i) + j] = seqs[i][j]
  <1> DEFINE n == Len(seqs)
             F == Flat(seqs)
             x == F[i - 1]
             y == seqs[i]
             z == F[n]
  <1>1. n \in Nat /\ i \in 0 .. n /\ i - 1 \in 0 .. n /\ n \in 0 .. n /\ i <= n
    OBVIOUS
  <1>2. F \in [0 .. n -> Seq(S)] /\ F[i] = F[i - 1] \o seqs[i] /\ z = FlattenSeq(seqs)
    BY FlatSteps, Zenon DEF Accumulates
  <1>3. Len(F[i]) <= Len(z) /\ \A k \in 1 .. Len(F[i]) : z[k] = F[i][k]
    <2> HIDE DEF n
    <2> QED
      BY <1>1, FlatGrows DEF n
  <1> HIDE DEF F
  <1>4. x \in Seq(S) /\ y \in Seq(S) /\ z \in Seq(S) /\ F[i] = x \o y /\ j \in 1 .. Len(y)
    <2>1. seqs[i] \in Seq(S)
      OBVIOUS
    <2> QED
      BY <1>1, <1>2, <2>1, Zenon
  <1> HIDE DEF x, y, z
  <1>5. /\ Len(x) + j \in 1 .. Len(x \o y) /\ (x \o y)[Len(x) + j] = y[j] /\ Len(x) \in Nat
        /\ Len(x \o y) \in Nat /\ Len(z) \in Nat
    BY <1>4
  <1>6. Len(x) + j \in 1 .. Len(z) /\ z[Len(x) + j] = y[j]
    <2> DEFINE w == x \o y
               k == Len(x) + j
    <2>1. k \in 1 .. Len(w) /\ w[k] = y[j] /\ Len(w) \in Nat /\ Len(z) \in Nat
      BY <1>5
    <2>2. Len(w) <= Len(z) /\ \A q \in 1 .. Len(w) : z[q] = w[q]
      BY <1>3, <1>4, Zenon
    <2> HIDE DEF w, k
    <2>3. k \in 1 .. Len(z) /\ z[k] = y[j]
      BY <2>1, <2>2
    <2> QED
      BY <2>3 DEF k
  <1>7. Offset(seqs, i) = Len(x)
    BY Zenon DEF Offset, x, F
  <1> QED
    BY <1>2, <1>5, <1>6, <1>7, Zenon DEF y

(* And every element of the concatenation is found like that.              *)
LEMMA FlatIndex ==
  ASSUME NEW S, NEW seqs \in Seq(Seq(S)), NEW k \in 1 .. Len(FlattenSeq(seqs))
  PROVE  \E i \in 1 .. Len(seqs) : \E j \in 1 .. Len(seqs[i]) :
           k = Offset(seqs, i) + j /\ FlattenSeq(seqs)[k] = seqs[i][j]
  <1> DEFINE n == Len(seqs)
             F == Flat(seqs)
             T == {m \in 0 .. n : k <= Len(F[m])}
  <1>0. /\ F \in [0 .. n -> Seq(S)] /\ F[n] = FlattenSeq(seqs) /\ F[0] = <<>>
        /\ \A m \in 1 .. n : F[m] = F[m - 1] \o seqs[m]
    BY FlatSteps, Zenon DEF Accumulates
  <1>1. n \in Nat /\ Len(FlattenSeq(seqs)) \in Nat
    BY FlattenElements
  <1> HIDE DEF F
  <1>2. n \in T /\ T \subseteq Nat
    BY <1>0, <1>1
  <1>3. PICK i \in T : \A m \in T : i <= m
    BY <1>2, LeastNatural
  <1>4. i # 0
    <2>1. k <= Len(F[i]) /\ Len(F[0]) = 0 /\ k >= 1 /\ k \in Nat
      BY <1>0, <1>1
    <2> QED
      BY <2>1
  <1>5. i \in 1 .. n /\ i - 1 \in 0 .. n /\ ~(i <= i - 1)
    BY <1>1, <1>4
  <1>6. i - 1 \notin T
    BY <1>3, <1>5
  <1> DEFINE x == F[i - 1]
             y == seqs[i]
  <1>7. x \in Seq(S) /\ y \in Seq(S) /\ F[i] = x \o y
    <2>1. seqs[i] \in Seq(S)
      BY <1>5
    <2> QED
      BY <1>0, <1>5, <2>1, Zenon
  <1>8. k <= Len(x \o y) /\ ~(k <= Len(x)) /\ k \in Nat
    <2>1. k <= Len(F[i]) /\ k \in Nat
      BY <1>1
    <2>2. ~(k <= Len(F[i - 1]))
      BY <1>5, <1>6
    <2> QED
      BY <1>7, <2>1, <2>2, Zenon
  <1>9. Len(x) = Offset(seqs, i)
    BY DEF Offset, F
  <1> HIDE DEF x
  <1>10. k - Len(x) \in 1 .. Len(y) /\ k = Len(x) + (k - Len(x))
    <2> HIDE DEF y
    <2> QED
      BY <1>7, <1>8
  <1>11. FlattenSeq(seqs)[Offset(seqs, i) + (k - Len(x))] = seqs[i][k - Len(x)]
    BY <1>5, <1>10, FlatPlace
  <1> QED
    BY <1>5, <1>9, <1>10, <1>11

(* Places in different parts are apart.                                    *)
LEMMA OffsetGrows ==
  ASSUME NEW S, NEW seqs \in Seq(Seq(S)),
         NEW i \in 1 .. Len(seqs), NEW j \in 1 .. Len(seqs), i < j
  PROVE  /\ Offset(seqs, i) \in Nat /\ Offset(seqs, j) \in Nat
         /\ Offset(seqs, i) + Len(seqs[i]) <= Offset(seqs, j)
  <1> DEFINE n == Len(seqs)
             F == Flat(seqs)
             x == F[i - 1]
             y == seqs[i]
  <1>1. i \in 0 .. n /\ i - 1 \in 0 .. n /\ j - 1 \in 0 .. n /\ i <= j - 1
    OBVIOUS
  <1>2. F \in [0 .. n -> Seq(S)] /\ F[i] = F[i - 1] \o seqs[i]
    BY FlatSteps, Zenon DEF Accumulates
  <1>3. Len(F[i]) <= Len(F[j - 1])
    <2> DEFINE m == j - 1
    <2> HIDE DEF n, m
    <2>1. m \in 0 .. n /\ i <= m
      BY <1>1 DEF m
    <2>2. Len(F[i]) <= Len(F[m])
      BY <1>1, <2>1, FlatGrows DEF n
    <2> QED
      BY <2>2 DEF m
  <1>4. x \in Seq(S) /\ y \in Seq(S) /\ F[j - 1] \in Seq(S) /\ F[i] = x \o y
    <2>1. seqs[i] \in Seq(S)
      OBVIOUS
    <2> HIDE DEF F
    <2> QED
      BY <1>1, <1>2, <2>1, Zenon
  <1>5. Len(x \o y) = Len(x) + Len(y)
    <2> HIDE DEF x, y
    <2> QED
      BY <1>4
  <1>6. Offset(seqs, i) = Len(x) /\ Offset(seqs, j) = Len(F[j - 1])
    BY DEF Offset
  <1>7. Len(x) \in Nat /\ Len(y) \in Nat /\ Len(F[j - 1]) \in Nat
    <2> HIDE DEF x, y, F
    <2> QED
      BY <1>4
  <1> QED
    BY <1>3, <1>4, <1>5, <1>6, <1>7

(* Elements that share nothing, and all they have, for R that says what    *)
(* each element has.                                                       *)
ApartBy(R, s) == \A i, j \in 1 .. Len(s) : i # j => R[s[i]] \cap R[s[j]] = {}
CoverBy(R, s) == UNION {R[s[i]] : i \in 1 .. Len(s)}

LEMMA FlatApart ==
  ASSUME NEW S, NEW seqs \in Seq(Seq(S)), NEW R,
         \A i \in 1 .. Len(seqs) : ApartBy(R, seqs[i]),
         \A i, j \in 1 .. Len(seqs) :
           i # j => CoverBy(R, seqs[i]) \cap CoverBy(R, seqs[j]) = {}
  PROVE  ApartBy(R, FlattenSeq(seqs))
  <1> DEFINE n == Len(seqs)
             all == FlattenSeq(seqs)
             at(i, j) == Offset(seqs, i) + j
  <1>1. \A k \in 1 .. Len(all) : \E i \in 1 .. n : \E j \in 1 .. Len(seqs[i]) :
          k = at(i, j) /\ all[k] = seqs[i][j]
    BY FlatIndex
  <1> HIDE DEF all, n, at
  <1> SUFFICES ASSUME NEW k \in 1 .. Len(all), NEW l \in 1 .. Len(all), k # l
               PROVE  R[all[k]] \cap R[all[l]] = {}
    BY Zenon DEF ApartBy, all
  <1>i. PICK i \in 1 .. n : \E j \in 1 .. Len(seqs[i]) : k = at(i, j) /\ all[k] = seqs[i][j]
    BY <1>1, Zenon
  <1>2. PICK j \in 1 .. Len(seqs[i]) : k = at(i, j) /\ all[k] = seqs[i][j]
    BY <1>i, Zenon
  <1>p. PICK p \in 1 .. n : \E q \in 1 .. Len(seqs[p]) : l = at(p, q) /\ all[l] = seqs[p][q]
    BY <1>1, Zenon
  <1>3. PICK q \in 1 .. Len(seqs[p]) : l = at(p, q) /\ all[l] = seqs[p][q]
    BY <1>p, Zenon
  <1>4. CASE i = p
    <2>1. j # q
      BY <1>2, <1>3, <1>4, Zenon
    <2>2. R[seqs[i][j]] \cap R[seqs[i][q]] = {}
      BY <1>3, <1>4, <2>1, Zenon DEF ApartBy, n
    <2> QED
      BY <1>2, <1>3, <1>4, <2>2, Zenon
  <1>5. CASE i # p
    <2>1. CoverBy(R, seqs[i]) \cap CoverBy(R, seqs[p]) = {}
      BY <1>5, Zenon DEF n
    <2>2. R[seqs[i][j]] \subseteq CoverBy(R, seqs[i]) /\ R[seqs[p][q]] \subseteq CoverBy(R, seqs[p])
      BY Zenon DEF CoverBy
    <2>3. R[seqs[i][j]] \cap R[seqs[p][q]] = {}
      BY <2>1, <2>2, Zenon
    <2> QED
      BY <1>2, <1>3, <2>3, Zenon
  <1> QED
    BY <1>4, <1>5, Zenon

LEMMA FlatCover ==
  ASSUME NEW S, NEW seqs \in Seq(Seq(S)), NEW R
  PROVE  CoverBy(R, FlattenSeq(seqs)) = UNION {CoverBy(R, seqs[i]) : i \in 1 .. Len(seqs)}
  <1> DEFINE n == Len(seqs)
             all == FlattenSeq(seqs)
  <1>1. \A k \in 1 .. Len(all) : \E i \in 1 .. n : \E j \in 1 .. Len(seqs[i]) :
          all[k] = seqs[i][j]
    BY FlatIndex
  <1>2. \A i \in 1 .. n : \A j \in 1 .. Len(seqs[i]) : \E k \in 1 .. Len(all) :
          all[k] = seqs[i][j]
    BY FlatPlace
  <1> HIDE DEF all, n
  <1>3. ASSUME NEW r, r \in CoverBy(R, all)
        PROVE  r \in UNION {CoverBy(R, seqs[i]) : i \in 1 .. n}
    <2>1. PICK k \in 1 .. Len(all) : r \in R[all[k]]
      BY <1>3, Zenon DEF CoverBy
    <2>2. PICK i \in 1 .. n : \E j \in 1 .. Len(seqs[i]) : all[k] = seqs[i][j]
      BY <1>1, Zenon
    <2>3. r \in CoverBy(R, seqs[i])
      BY <2>1, <2>2, Zenon DEF CoverBy
    <2> QED
      BY <2>3, Zenon
  <1>4. ASSUME NEW r, r \in UNION {CoverBy(R, seqs[i]) : i \in 1 .. n}
        PROVE  r \in CoverBy(R, all)
    <2>1. PICK i \in 1 .. n : r \in CoverBy(R, seqs[i])
      BY <1>4, Zenon
    <2>2. PICK j \in 1 .. Len(seqs[i]) : r \in R[seqs[i][j]]
      BY <2>1, Zenon DEF CoverBy
    <2>3. PICK k \in 1 .. Len(all) : all[k] = seqs[i][j]
      BY <1>2, Zenon
    <2> QED
      BY <2>2, <2>3, Zenon DEF CoverBy
  <1> QED
    BY <1>3, <1>4, Zenon DEF all, n

LEMMA CoverAppend ==
  ASSUME NEW S, NEW s \in Seq(S), NEW x \in S, NEW R
  PROVE  CoverBy(R, Append(s, x)) = CoverBy(R, s) \cup R[x]
  <1> DEFINE t == Append(s, x)
             n == Len(s)
  <1>1. n \in Nat /\ Len(t) = n + 1 /\ t[n + 1] = x /\ \A i \in 1 .. n : t[i] = s[i]
    OBVIOUS
  <1>2. \A i : i \in 1 .. n + 1 <=> i \in 1 .. n \/ i = n + 1
    BY <1>1
  <1> HIDE DEF t, n
  <1>3. ASSUME NEW r, r \in CoverBy(R, t) PROVE r \in CoverBy(R, s) \cup R[x]
    <2>1. PICK i \in 1 .. n + 1 : r \in R[t[i]]
      BY <1>1, <1>3, Zenon DEF CoverBy
    <2>2. CASE i \in 1 .. n
      <3>1. r \in R[s[i]]
        BY <1>1, <2>1, <2>2
      <3> QED
        BY <2>2, <3>1, Zenon DEF CoverBy, n
    <2>3. CASE i = n + 1
      BY <1>1, <2>1, <2>3
    <2> QED
      BY <1>2, <2>2, <2>3, Zenon
  <1>4. ASSUME NEW r, r \in CoverBy(R, s) PROVE r \in CoverBy(R, t)
    <2>1. PICK i \in 1 .. n : r \in R[s[i]]
      BY <1>4, Zenon DEF CoverBy, n
    <2>2. i \in 1 .. Len(t) /\ r \in R[t[i]]
      BY <1>1, <1>2, <2>1
    <2> QED
      BY <2>2, Zenon DEF CoverBy
  <1>5. ASSUME NEW r, r \in R[x] PROVE r \in CoverBy(R, t)
    <2>1. n + 1 \in 1 .. Len(t) /\ r \in R[t[n + 1]]
      BY <1>1, <1>2, <1>5
    <2> QED
      BY <2>1, Zenon DEF CoverBy
  <1> QED
    BY <1>3, <1>4, <1>5, Zenon DEF t

LEMMA ApartAppend ==
  ASSUME NEW S, NEW s \in Seq(S), NEW x \in S, NEW R,
         ApartBy(R, s), CoverBy(R, s) \cap R[x] = {}
  PROVE  ApartBy(R, Append(s, x))
  <1> DEFINE t == Append(s, x)
             n == Len(s)
  <1>1. n \in Nat /\ Len(t) = n + 1 /\ t[n + 1] = x /\ \A i \in 1 .. n : t[i] = s[i]
    OBVIOUS
  <1>2. \A i : i \in 1 .. n + 1 <=> i \in 1 .. n \/ i = n + 1
    BY <1>1
  <1> HIDE DEF t, n
  <1>3. \A i \in 1 .. n : R[t[i]] \cap R[x] = {}
    <2> TAKE i \in 1 .. n
    <2>1. R[s[i]] \subseteq CoverBy(R, s)
      BY Zenon DEF CoverBy, n
    <2>2. R[s[i]] \cap R[x] = {}
      BY <2>1, Zenon
    <2> QED
      BY <1>1, <2>2
  <1>4. \A i, j \in 1 .. n : i # j => R[t[i]] \cap R[t[j]] = {}
    BY <1>1 DEF ApartBy, n
  <1> SUFFICES ASSUME NEW i \in 1 .. n + 1, NEW j \in 1 .. n + 1, i # j
               PROVE  R[t[i]] \cap R[t[j]] = {}
    BY <1>1, Zenon DEF ApartBy, t
  <1>5. CASE i \in 1 .. n /\ j \in 1 .. n
    BY <1>4, <1>5, Zenon
  <1>6. CASE i \in 1 .. n /\ j = n + 1
    BY <1>1, <1>3, <1>6
  <1>7. CASE i = n + 1 /\ j \in 1 .. n
    <2>1. R[t[j]] \cap R[x] = {}
      BY <1>3, <1>7
    <2> QED
      BY <1>1, <1>7, <2>1
  <1> QED
    BY <1>2, <1>5, <1>6, <1>7, Zenon

(* Slices that follow one another from one end to the other put the        *)
(* sequence together again.                                                *)
LEMMA FlatOfCuts ==
  ASSUME NEW S, NEW s \in Seq(S), NEW seqs \in Seq(Seq(S)),
         NEW cut \in [0 .. Len(seqs) -> 0 .. Len(s)],
         cut[0] = 0, cut[Len(seqs)] = Len(s),
         \A i \in 1 .. Len(seqs) : /\ cut[i - 1] <= cut[i]
                                   /\ seqs[i] = SubSeq(s, cut[i - 1] + 1, cut[i])
  PROVE  FlattenSeq(seqs) = s
  <1> DEFINE n == Len(seqs)
             F == Flat(seqs)
             T == {m \in 0 .. n : F[m] # SubSeq(s, 1, cut[m])}
  <1>1. /\ F \in [0 .. n -> Seq(S)] /\ F[0] = <<>> /\ F[n] = FlattenSeq(seqs)
        /\ \A m \in 1 .. n : F[m] = F[m - 1] \o seqs[m]
    BY FlatSteps, Zenon DEF Accumulates
  <1>2. n \in Nat /\ Len(s) \in Nat
    OBVIOUS
  <1> HIDE DEF F
  <1>3. \A a, b \in 0 .. Len(s) :
          a <= b => SubSeq(s, 1, a) \o SubSeq(s, a + 1, b) = SubSeq(s, 1, b)
    OBVIOUS
  <1>4. SubSeq(s, 1, 0) = <<>> /\ SubSeq(s, 1, Len(s)) = s
    OBVIOUS
  <1>5. ASSUME NEW m \in 0 .. n, m # 0 => m - 1 \notin T PROVE m \notin T
    <2>1. CASE m = 0
      BY <1>1, <1>4, <2>1
    <2>2. CASE m # 0
      <3>1. m \in 1 .. n /\ m - 1 \in 0 .. n
        BY <1>2, <2>2
      <3>2. F[m - 1] = SubSeq(s, 1, cut[m - 1])
        BY <1>5, <2>2, <3>1
      <3>3. /\ cut[m - 1] \in 0 .. Len(s) /\ cut[m] \in 0 .. Len(s) /\ cut[m - 1] <= cut[m]
            /\ seqs[m] = SubSeq(s, cut[m - 1] + 1, cut[m])
        BY <3>1
      <3>4. F[m] = SubSeq(s, 1, cut[m - 1]) \o SubSeq(s, cut[m - 1] + 1, cut[m])
        BY <1>1, <3>1, <3>2, <3>3, Zenon
      <3>5. F[m] = SubSeq(s, 1, cut[m])
        BY <1>3, <3>3, <3>4, Zenon
      <3> QED
        BY <3>5
    <2> QED
      BY <2>1, <2>2
  <1>6. T = {}
    <2>1. T \subseteq 0 .. n /\ 0 \in Nat
      OBVIOUS
    <2> HIDE DEF T, n
    <2> QED
      BY <1>2, <1>5, <2>1, NoFirst
  <1>7. n \in 0 .. n
    BY <1>2
  <1>8. F[n] = SubSeq(s, 1, cut[n])
    BY <1>6, <1>7
  <1> QED
    BY <1>1, <1>4, <1>8

-----------------------------------------------------------------------------
(* Division                                                                *)

LEMMA Division ==
  ASSUME NEW a \in Nat, NEW b \in Nat \ {0}
  PROVE  /\ a \div b \in Nat /\ a % b \in Nat /\ a % b < b
         /\ a = b * (a \div b) + (a % b)
  OBVIOUS
=============================================================================
