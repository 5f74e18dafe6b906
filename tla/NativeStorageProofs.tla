------------------------ MODULE NativeStorageProofs ------------------------
(***************************************************************************)
(* The native storage reader gives every row its own value, once, and      *)
(* packs requests the node serves and that are not wasted: for any groups, *)
(* batch size, node cap and order of the tasks, and whatever the node      *)
(* answers.                                                                *)
(***************************************************************************)
EXTENDS NativeStorage, InductionLemmas

Targets == {k[2] : k \in GroupKeys}

(* A work item that has rows.                                              *)
Item == [block : Nat, target : Targets, rows : Seq(Row) \ {<<>>}]

LEMMA ItemFields ==
  ASSUME NEW x \in Item
  PROVE  /\ x.block \in Nat /\ x.target \in Targets
         /\ x.rows \in Seq(Row) /\ Len(x.rows) \in Nat \ {0}
  <1>1. x.block \in Nat /\ x.target \in Targets /\ x.rows \in Seq(Row) /\ x.rows # <<>>
    BY DEF Item
  <1>2. \A z \in Seq(Row) : z # <<>> => Len(z) \in Nat \ {0}
    OBVIOUS
  <1> QED
    BY <1>1, <1>2

-----------------------------------------------------------------------------
(* The size of a request                                                   *)

RowParts(items) == [i \in DOMAIN items |-> items[i].rows]

LEMMA RowPartsType ==
  ASSUME NEW items \in Seq(Item)
  PROVE  /\ RowParts(items) \in Seq(Seq(Row)) /\ Len(RowParts(items)) = Len(items)
         /\ \A i \in 1 .. Len(items) : RowParts(items)[i] = items[i].rows
  <1>1. \A i \in 1 .. Len(items) : items[i].rows \in Seq(Row)
    BY ItemFields
  <1>2. RowParts(items) = [i \in 1 .. Len(items) |-> items[i].rows] /\ Len(items) \in Nat
    BY DEF RowParts
  <1>3. RowParts(items) \in [1 .. Len(items) -> Seq(Row)]
    BY <1>1, <1>2
  <1> QED
    BY <1>2, <1>3

LEMMA SlotsType ==
  ASSUME NEW items \in Seq(Item)
  PROVE  Slots(items) \in Nat
  <1>1. FlattenSeq(RowParts(items)) \in Seq(Row)
    BY RowPartsType, FlattenElements
  <1> QED
    BY <1>1 DEF Slots, RowParts

LEMMA SlotsEmpty ==
  Slots(<<>>) = 0
  <1>1. [i \in DOMAIN <<>> |-> <<>>[i].rows] = <<>>
    OBVIOUS
  <1>2. FlattenSeq(<<>>) = <<>>
    BY DEF FlattenSeq
  <1> QED
    BY <1>1, <1>2 DEF Slots

LEMMA SlotsAppend ==
  ASSUME NEW items \in Seq(Item), NEW x \in Item
  PROVE  Slots(Append(items, x)) = Slots(items) + Len(x.rows)
  <1> DEFINE n == Len(items)
             more == Append(items, x)
             seqs == RowParts(more)
             F == Flat(seqs)
  <1>1. /\ n \in Nat /\ more \in Seq(Item) /\ Len(more) = n + 1 /\ more[n + 1] = x
        /\ \A i \in 1 .. n : more[i] = items[i]
    OBVIOUS
  <1> HIDE DEF more
  <1>2. /\ seqs \in Seq(Seq(Row)) /\ Len(seqs) = n + 1
        /\ \A i \in 1 .. n + 1 : seqs[i] = more[i].rows
    BY <1>1, RowPartsType
  <1>3. /\ RowParts(items) \in Seq(Seq(Row)) /\ Len(RowParts(items)) = n
        /\ \A i \in 1 .. n : RowParts(items)[i] = items[i].rows
    BY RowPartsType
  <1> HIDE DEF seqs, n
  <1>4. SubSeq(seqs, 1, n) = RowParts(items)
    <2> DEFINE p == SubSeq(seqs, 1, n)
               q == RowParts(items)
    <2>1. \A i \in 1 .. n : seqs[i] = q[i]
      <3> TAKE i \in 1 .. n
      <3>1. i \in 1 .. n + 1
        BY <1>1
      <3> QED
        BY <1>1, <1>2, <1>3, <3>1, Zenon
    <2>2. p \in Seq(Seq(Row)) /\ Len(p) = n /\ \A i \in 1 .. n : p[i] = seqs[i]
      BY <1>1, <1>2
    <2>3. \A i \in 1 .. n : p[i] = q[i]
      BY <2>1, <2>2
    <2> HIDE DEF p, q
    <2>4. p = q
      BY <1>3, <2>2, <2>3, SeqEqual DEF q
    <2> QED
      BY <2>4 DEF p, q
  <1>5. /\ F \in [0 .. Len(seqs) -> Seq(Row)] /\ F[Len(seqs)] = FlattenSeq(seqs)
        /\ \A m \in 1 .. Len(seqs) : F[m] = F[m - 1] \o seqs[m]
    BY <1>2, FlatSteps, Zenon DEF Accumulates
  <1>6. n \in 0 .. n + 1 /\ n + 1 \in 1 .. n + 1 /\ (n + 1) - 1 = n
    BY <1>1
  <1>7. F[n] = FlattenSeq(RowParts(items))
    BY <1>2, <1>4, <1>6 DEF Flat
  <1> HIDE DEF F
  <1>8. FlattenSeq(seqs) = F[n] \o x.rows /\ F[n] \in Seq(Row)
    BY <1>1, <1>2, <1>5, <1>6
  <1>9. x.rows \in Seq(Row)
    BY ItemFields
  <1>10. Len(FlattenSeq(seqs)) = Len(F[n]) + Len(x.rows)
    BY <1>8, <1>9
  <1> QED
    BY <1>7, <1>10 DEF Slots, seqs, more, RowParts

LEMMA SlotsOne ==
  ASSUME NEW x \in Item
  PROVE  Slots(<<x>>) = Len(x.rows)
  <1>1. <<>> \in Seq(Item) /\ Append(<<>>, x) = <<x>>
    OBVIOUS
  <1>2. Slots(<<x>>) = Slots(<<>>) + Len(x.rows)
    BY <1>1, SlotsAppend
  <1> QED
    BY <1>2, SlotsEmpty, ItemFields

-----------------------------------------------------------------------------
(* The question and the answer                                             *)

Parts(items, c, n) == [i \in 1 .. n |-> IF items[i].target = c THEN items[i].rows ELSE <<>>]

LEMMA PartsType ==
  ASSUME NEW items \in Seq(Item), NEW c, NEW n \in 0 .. Len(items)
  PROVE  /\ Parts(items, c, n) \in Seq(Seq(Row)) /\ Len(Parts(items, c, n)) = n
         /\ \A i \in 1 .. n :
              Parts(items, c, n)[i] = IF items[i].target = c THEN items[i].rows ELSE <<>>
         /\ SlotsOf(items, c, n) = FlattenSeq(Parts(items, c, n))
         /\ SlotsOf(items, c, n) \in Seq(Row)
  <1> DEFINE part(i) == IF items[i].target = c THEN items[i].rows ELSE <<>>
  <1>1. n \in Nat /\ \A i \in 1 .. n : i \in 1 .. Len(items)
    OBVIOUS
  <1>2. \A i \in 1 .. n : part(i) \in Seq(Row)
    <2> TAKE i \in 1 .. n
    <2>1. items[i].rows \in Seq(Row)
      BY <1>1, ItemFields
    <2>2. <<>> \in Seq(Row)
      OBVIOUS
    <2> QED
      BY <2>1, <2>2, Zenon
  <1>3. Parts(items, c, n) = [i \in 1 .. n |-> part(i)]
    BY DEF Parts
  <1> HIDE DEF part
  <1>4. Parts(items, c, n) \in [1 .. n -> Seq(Row)]
    BY <1>2, <1>3
  <1>5. Parts(items, c, n) \in Seq(Seq(Row)) /\ Len(Parts(items, c, n)) = n
    BY <1>1, <1>4
  <1>6. SlotsOf(items, c, n) = FlattenSeq(Parts(items, c, n))
    BY DEF SlotsOf, Parts
  <1>7. FlattenSeq(Parts(items, c, n)) \in Seq(Row)
    BY <1>5, FlattenElements
  <1>8. \A i \in 1 .. n : Parts(items, c, n)[i] = part(i)
    BY <1>3
  <1> QED
    BY <1>5, <1>6, <1>7, <1>8 DEF part

(* The cursor of an item stands where its slots begin.                     *)
LEMMA CursorIsRight ==
  ASSUME NEW items \in Seq(Item), NEW i \in 1 .. Len(items), NEW at \in 1 .. Len(items[i].rows)
  PROVE  LET asked == SlotsOf(items, items[i].target, Len(items))
         IN /\ Start(items, i) \in Nat
            /\ Start(items, i) + at \in 1 .. Len(asked)
            /\ asked[Start(items, i) + at] = items[i].rows[at]
  <1> DEFINE c == items[i].target
             n == Len(items)
             seqs == Parts(items, c, n)
             before == Parts(items, c, i - 1)
  <1>1. n \in Nat /\ n \in 0 .. n /\ i - 1 \in 0 .. n /\ i \in 1 .. n /\ i - 1 \in Nat
    OBVIOUS
  <1>2. /\ seqs \in Seq(Seq(Row)) /\ Len(seqs) = n /\ SlotsOf(items, c, n) = FlattenSeq(seqs)
        /\ \A j \in 1 .. n : seqs[j] = IF items[j].target = c THEN items[j].rows ELSE <<>>
    <2> HIDE DEF n, c
    <2> QED
      BY <1>1, PartsType DEF n
  <1>3. /\ before \in Seq(Seq(Row)) /\ Len(before) = i - 1
        /\ SlotsOf(items, c, i - 1) = FlattenSeq(before)
        /\ \A j \in 1 .. i - 1 : before[j] = IF items[j].target = c THEN items[j].rows ELSE <<>>
    <2> DEFINE m == i - 1
    <2>1. m \in 0 .. Len(items)
      BY <1>1
    <2> HIDE DEF m, c
    <2>2. /\ Parts(items, c, m) \in Seq(Seq(Row)) /\ Len(Parts(items, c, m)) = m
          /\ SlotsOf(items, c, m) = FlattenSeq(Parts(items, c, m))
          /\ \A j \in 1 .. m :
               Parts(items, c, m)[j] = IF items[j].target = c THEN items[j].rows ELSE <<>>
      BY <2>1, PartsType
    <2> QED
      BY <2>2 DEF m
  <1>4. seqs[i] = items[i].rows
    BY <1>1, <1>2
  <1> HIDE DEF seqs, before, n
  <1>5. SubSeq(seqs, 1, i - 1) = before
    <2> DEFINE p == SubSeq(seqs, 1, i - 1)
    <2>1. p \in Seq(Seq(Row)) /\ Len(p) = i - 1 /\ \A j \in 1 .. i - 1 : p[j] = seqs[j]
      BY <1>1, <1>2
    <2>2. \A j \in 1 .. i - 1 : seqs[j] = before[j]
      <3> TAKE j \in 1 .. i - 1
      <3>1. j \in 1 .. n
        BY <1>1
      <3> QED
        BY <1>2, <1>3, <3>1, Zenon
    <2>3. \A j \in 1 .. Len(p) : p[j] = before[j]
      BY <2>1, <2>2, Zenon
    <2>4. Len(p) = Len(before)
      BY <1>3, <2>1, Zenon
    <2> HIDE DEF p
    <2>5. p = before
      BY <1>3, <2>1, <2>3, <2>4, SeqEqual
    <2> QED
      BY <2>5 DEF p
  <1>6. Offset(seqs, i) = Start(items, i)
    <2>1. Flat(seqs)[i - 1] = FlattenSeq(before)
      BY <1>1, <1>2, <1>5, Zenon DEF Flat
    <2> QED
      BY <1>3, <2>1, Zenon DEF Offset, Start, c
  <1>7. i \in 1 .. Len(seqs) /\ at \in 1 .. Len(seqs[i])
    BY <1>1, <1>2, <1>4, Zenon
  <1>8. /\ Offset(seqs, i) \in Nat
        /\ Offset(seqs, i) + at \in 1 .. Len(FlattenSeq(seqs))
        /\ FlattenSeq(seqs)[Offset(seqs, i) + at] = seqs[i][at]
    BY <1>2, <1>7, FlatPlace
  <1> QED
    BY <1>2, <1>4, <1>6, <1>8, Zenon DEF n, c

LEMMA RequestType ==
  ASSUME NEW items \in Seq(Item)
  PROVE  /\ DOMAIN Request(items) = {items[i].target : i \in 1 .. Len(items)}
         /\ \A c \in DOMAIN Request(items) :
              /\ Request(items)[c] = SlotsOf(items, c, Len(items))
              /\ Request(items)[c] \in Seq(Row) /\ Len(Request(items)[c]) \in Nat \ {0}
  <1>1. DOMAIN items = 1 .. Len(items) /\ Len(items) \in Nat
    OBVIOUS
  <1>2. DOMAIN Request(items) = {items[i].target : i \in 1 .. Len(items)}
    BY <1>1 DEF Request
  <1>3. \A c \in DOMAIN Request(items) : Request(items)[c] = SlotsOf(items, c, Len(items))
    BY DEF Request
  <1>4. ASSUME NEW c \in DOMAIN Request(items)
        PROVE  SlotsOf(items, c, Len(items)) \in Seq(Row)
    <2>1. Len(items) \in 0 .. Len(items)
      BY <1>1
    <2> QED
      BY <2>1, PartsType
  <1>5. ASSUME NEW c \in DOMAIN Request(items)
        PROVE  Len(SlotsOf(items, c, Len(items))) \in Nat \ {0}
    <2>1. PICK i \in 1 .. Len(items) : items[i].target = c
      BY <1>2
    <2>2. 1 \in 1 .. Len(items[i].rows)
      <3>1. Len(items[i].rows) \in Nat \ {0}
        BY ItemFields
      <3> QED
        BY <3>1
    <2>3. Start(items, i) \in Nat /\ Start(items, i) + 1 \in 1 .. Len(SlotsOf(items, c, Len(items)))
      BY <2>1, <2>2, CursorIsRight
    <2>4. Len(SlotsOf(items, c, Len(items))) \in Nat
      BY <1>4
    <2> QED
      BY <2>3, <2>4
  <1> QED
    BY <1>2, <1>3, <1>4, <1>5, Zenon

RowsInItems(items) == UNION {ToSet(items[i].rows) : i \in DOMAIN items}

LEMMA RowsInItemsAre ==
  ASSUME NEW items \in Seq(Item), NEW r
  PROVE  r \in RowsInItems(items) <=>
           \E i \in 1 .. Len(items) : \E at \in 1 .. Len(items[i].rows) : items[i].rows[at] = r
  <1>1. DOMAIN items = 1 .. Len(items)
    OBVIOUS
  <1>2. \A i \in 1 .. Len(items) : DOMAIN items[i].rows = 1 .. Len(items[i].rows)
    <2> TAKE i \in 1 .. Len(items)
    <2>1. items[i].rows \in Seq(Row)
      BY ItemFields
    <2> QED
      BY <2>1
  <1>3. r \in RowsInItems(items) <=> \E i \in 1 .. Len(items) : r \in ToSet(items[i].rows)
    BY <1>1 DEF RowsInItems
  <1>4. \A i \in 1 .. Len(items) :
          r \in ToSet(items[i].rows) <=> \E at \in DOMAIN items[i].rows : items[i].rows[at] = r
    BY DEF ToSet
  <1> QED
    BY <1>2, <1>3, <1>4, Zenon

(* What is taken from the answer that was asked for is each row's own.     *)
LEMMA TakenIsOwn ==
  ASSUME NEW items \in Seq(Item), NEW r \in RowsInItems(items)
  PROVE  TakenFrom(items, Request(items))[r] = r
  <1> DEFINE i == CHOOSE j \in DOMAIN items : r \in ToSet(items[j].rows)
             at == CHOOSE n \in DOMAIN items[i].rows : items[i].rows[n] = r
  <1>1. TakenFrom(items, Request(items))[r] =
          Request(items)[items[i].target][Start(items, i) + at]
    BY Zenon DEF TakenFrom, RowsInItems
  <1>2. \E j \in DOMAIN items : r \in ToSet(items[j].rows)
    BY DEF RowsInItems
  <1>3. i \in DOMAIN items /\ r \in ToSet(items[i].rows)
    BY <1>2, Zenon
  <1> HIDE DEF i
  <1>4. \E n \in DOMAIN items[i].rows : items[i].rows[n] = r
    BY <1>3 DEF ToSet
  <1>5. at \in DOMAIN items[i].rows /\ items[i].rows[at] = r
    BY <1>4, Zenon
  <1> HIDE DEF at
  <1>6. i \in 1 .. Len(items)
    BY <1>3
  <1>7. items[i].rows \in Seq(Row)
    BY <1>6, ItemFields
  <1>8. at \in 1 .. Len(items[i].rows)
    BY <1>5, <1>7
  <1>9. SlotsOf(items, items[i].target, Len(items))[Start(items, i) + at] = items[i].rows[at]
    BY <1>6, <1>8, CursorIsRight
  <1>10. items[i].target \in DOMAIN Request(items)
    BY <1>6, RequestType
  <1>11. Request(items)[items[i].target] = SlotsOf(items, items[i].target, Len(items))
    BY <1>10, RequestType
  <1> QED
    BY <1>1, <1>5, <1>9, <1>11

(* An answer that is not the one that was asked for is refused as a whole. *)
LEMMA OnlyTheAnswer ==
  ASSUME NEW items \in Seq(Item), NEW kind \in AnswerKinds \ {"throttle", "error"},
         NEW c \in DOMAIN Request(items), kind # "honest"
  PROVE  Decoded(items, Answered(Request(items), kind, c)) = None
  <1> DEFINE q == Request(items)
             a == Answered(q, kind, c)
             Fits == \A i \in DOMAIN items :
                       /\ items[i].target \in DOMAIN a
                       /\ Start(items, i) + Len(items[i].rows) <= Len(a[items[i].target])
             Exact == \A d \in DOMAIN a : Len(a[d]) = IF d \in DOMAIN q THEN Len(q[d]) ELSE 0
  <1> SUFFICES Decoded(items, a) = None
    OBVIOUS
  <1>1. ~(Fits /\ Exact) => Decoded(items, a) = None
    BY Zenon DEF Decoded
  <1>2. /\ q = [d \in DOMAIN q |-> q[d]]
        /\ q[c] \in Seq(Row) /\ Len(q[c]) \in Nat \ {0}
        /\ DOMAIN q = {items[i].target : i \in 1 .. Len(items)}
    <2>1. q = [d \in DOMAIN q |-> q[d]]
      BY DEF Request
    <2> QED
      BY <2>1, RequestType, Zenon
  <1>3. DOMAIN items = 1 .. Len(items)
    OBVIOUS
  <1> HIDE DEF q
  <1> DEFINE s == q[c]
  <1>4. s \in Seq(Row) /\ Len(s) \in Nat \ {0}
    BY <1>2
  <1> HIDE DEF s
  <1>5. CASE kind = "short"
    <2>1. a = [q EXCEPT ![c] = Tail(s)]
      BY <1>5 DEF Answered, s
    <2>2. c \in DOMAIN a /\ a[c] = Tail(s) /\ c \in DOMAIN q
      BY <1>2, <2>1 DEF q
    <2>3. Len(Tail(s)) # Len(s)
      BY <1>4
    <2> QED
      BY <1>1, <2>2, <2>3, Zenon DEF s
  <1>6. CASE kind = "shifted"
    <2>1. a = [q EXCEPT ![c] = <<Junk>> \o s]
      BY <1>6 DEF Answered, s
    <2>2. c \in DOMAIN a /\ a[c] = <<Junk>> \o s /\ c \in DOMAIN q
      BY <1>2, <2>1 DEF q
    <2>3. Len(<<Junk>> \o s) # Len(s)
      BY <1>4
    <2> QED
      BY <1>1, <2>2, <2>3, Zenon DEF s
  <1>7. CASE kind = "long"
    <2>1. a = [q EXCEPT ![c] = s \o <<Junk>>]
      BY <1>7 DEF Answered, s
    <2>2. c \in DOMAIN a /\ a[c] = s \o <<Junk>> /\ c \in DOMAIN q
      BY <1>2, <2>1 DEF q
    <2>3. Len(s \o <<Junk>>) # Len(s)
      BY <1>4
    <2> QED
      BY <1>1, <2>2, <2>3, Zenon DEF s
  <1>8. CASE kind = "missing"
    <2>1. a = [d \in DOMAIN q \ {c} |-> q[d]]
      BY <1>8 DEF Answered
    <2>2. c \notin DOMAIN a
      BY <2>1
    <2>3. PICK i \in 1 .. Len(items) : items[i].target = c
      BY <1>2 DEF q
    <2> QED
      BY <1>1, <1>3, <2>2, <2>3, Zenon
  <1>9. CASE kind = "stranger"
    <2>1. a = [d \in DOMAIN q \cup {NoTarget} |-> IF d = NoTarget THEN <<Junk>> ELSE q[d]]
      BY <1>9 DEF Answered
    <2>2. NoTarget \in DOMAIN a /\ a[NoTarget] = <<Junk>>
      BY <2>1
    <2>3. NoTarget \notin DOMAIN q
      <3>1. \A i \in 1 .. Len(items) : items[i].target \in Targets
        BY ItemFields
      <3>2. NoTarget \notin Targets
        BY NativeAssumption DEF Targets
      <3> QED
        BY <1>2, <3>1, <3>2
    <2>4. Len(<<Junk>>) # 0
      OBVIOUS
    <2> QED
      BY <1>1, <2>2, <2>3, <2>4, Zenon
  <1>10. kind \in {"short", "shifted", "long", "missing", "stranger"}
    BY DEF AnswerKinds
  <1> HIDE DEF a
  <1> QED
    BY <1>5, <1>6, <1>7, <1>8, <1>9, <1>10

(* So a row that is answered natively is answered with its own value.      *)
LEMMA DecodedIsOwn ==
  ASSUME NEW items \in Seq(Item), NEW kind \in AnswerKinds \ {"throttle", "error"},
         NEW c \in DOMAIN Request(items), NEW r \in RowsInItems(items),
         Decoded(items, Answered(Request(items), kind, c)) # None
  PROVE  Decoded(items, Answered(Request(items), kind, c))[r] = r
  <1>1. kind = "honest"
    BY OnlyTheAnswer
  <1>2. Answered(Request(items), kind, c) = Request(items)
    BY <1>1 DEF Answered
  <1>3. Decoded(items, Request(items)) \in {TakenFrom(items, Request(items)), None}
    BY Zenon DEF Decoded
  <1>4. Decoded(items, Request(items)) = TakenFrom(items, Request(items))
    BY <1>2, <1>3
  <1> QED
    BY <1>2, <1>4, TakenIsOwn

-----------------------------------------------------------------------------
(* Slices of a group                                                       *)

(* There are as many slices as it takes, and never more than rows.         *)
LEMMA EnoughChunks ==
  ASSUME NEW n \in Nat \ {0}, NEW size \in Nat \ {0}
  PROVE  /\ (n + size - 1) \div size \in Nat \ {0}
         /\ (n + size - 1) \div size <= n
  <1> DEFINE t == n + size - 1
             m == t \div size
             rest == t % size
  <1>1. t \in Nat /\ t >= size
    OBVIOUS
  <1>2. m \in Nat /\ rest \in Nat /\ rest < size /\ t = size * m + rest
    BY <1>1, Division
  <1> HIDE DEF m, rest
  <1>3. m # 0
    <2>1. size * 0 = 0
      OBVIOUS
    <2> QED
      BY <1>1, <1>2, <2>1
  <1>4. m <= n
    <2> SUFFICES ASSUME m >= n + 1 PROVE FALSE
      BY <1>2
    <2>1. size * m >= size * (n + 1)
      BY <1>2
    <2>2. size * (n + 1) = size * n + size /\ size * n >= n
      OBVIOUS
    <2>3. size * m \in Nat /\ size * n \in Nat
      BY <1>2
    <2> QED
      BY <1>2, <2>1, <2>2, <2>3
  <1> QED
    BY <1>2, <1>3, <1>4 DEF m

(* chunks are the slices of rows between successive cuts.                  *)
CutAt(chunks, rows, m, cut) ==
  /\ cut \in [0 .. m -> Nat]
  /\ cut[0] = 0 /\ cut[m] = Len(rows)
  /\ \A i \in 1 .. m : cut[i - 1] < cut[i]
  /\ chunks = [i \in 1 .. m |-> SubSeq(rows, cut[i - 1] + 1, cut[i])]

LEMMA EvenCuts ==
  ASSUME NEW S, NEW rows \in Seq(S), Len(rows) # 0, NEW size \in Nat \ {0}
  PROVE  \E m \in Nat \ {0} : \E cut : CutAt(even_chunks(rows, size), rows, m, cut)
  <1> DEFINE n == Len(rows)
             m == (n + size - 1) \div size
             base == n \div m
             rem == n % m
             least(i) == IF i < rem THEN i ELSE rem
             cut == [i \in 0 .. m |-> i * base + least(i)]
             first(i) == (i - 1) * base + (IF i - 1 < rem THEN i - 1 ELSE rem)
             len(i) == base + IF i - 1 < rem THEN 1 ELSE 0
  <1>1. n \in Nat \ {0}
    OBVIOUS
  <1>2. even_chunks(rows, size) = [i \in 1 .. m |-> SubSeq(rows, first(i) + 1, first(i) + len(i))]
    BY <1>1, Zenon DEF even_chunks
  <1> HIDE DEF n
  <1>3. m \in Nat \ {0} /\ m <= n
    BY <1>1, EnoughChunks
  <1> HIDE DEF m
  <1>4. base \in Nat /\ rem \in Nat /\ rem < m /\ n = m * base + rem
    BY <1>1, <1>3, Division
  <1> HIDE DEF base, rem
  <1>5. base # 0
    <2>1. m * 0 = 0
      BY <1>3
    <2> QED
      BY <1>1, <1>3, <1>4, <2>1
  <1>6. \A i \in 0 .. m : i * base \in Nat /\ least(i) \in Nat
    BY <1>3, <1>4
  <1>7. ASSUME NEW i \in 1 .. m
        PROVE  first(i) = cut[i - 1] /\ first(i) + len(i) = cut[i] /\ cut[i - 1] < cut[i]
    <2>1. i - 1 \in 0 .. m /\ i \in 0 .. m
      BY <1>3
    <2>2. first(i) = cut[i - 1]
      BY <2>1
    <2>3. i * base = (i - 1) * base + base /\ (i - 1) * base \in Nat
      BY <1>4
    <2>4. first(i) + len(i) = cut[i]
      BY <1>4, <2>1, <2>3
    <2>5. len(i) \in Nat \ {0}
      BY <1>4, <1>5
    <2>6. cut[i - 1] \in Nat
      BY <1>6, <2>1
    <2> HIDE DEF first, len, cut
    <2> QED
      BY <2>2, <2>4, <2>5, <2>6
  <1>8. cut \in [0 .. m -> Nat]
    BY <1>6
  <1>9. cut[0] = 0 /\ cut[m] = n
    <2>1. 0 * base = 0 /\ 0 \in 0 .. m /\ m \in 0 .. m
      BY <1>3, <1>4
    <2>2. cut[0] = 0
      BY <1>4, <2>1
    <2>3. cut[m] = n
      BY <1>3, <1>4, <2>1
    <2> QED
      BY <2>2, <2>3
  <1> HIDE DEF first, len, cut
  <1>10. even_chunks(rows, size) = [i \in 1 .. m |-> SubSeq(rows, cut[i - 1] + 1, cut[i])]
    BY <1>2, <1>7
  <1>11. CutAt(even_chunks(rows, size), rows, m, cut)
    BY <1>7, <1>8, <1>9, <1>10, Zenon DEF CutAt, n
  <1> QED
    BY <1>3, <1>11, Zenon

LEMMA CutsGrow ==
  ASSUME NEW chunks, NEW rows, NEW m \in Nat, NEW cut, CutAt(chunks, rows, m, cut),
         NEW i \in 0 .. m, NEW j \in 0 .. m, i <= j
  PROVE  cut[i] <= cut[j] /\ cut[i] \in Nat /\ cut[j] \in Nat
  <1>1. cut \in [0 .. m -> Nat] /\ \A k \in 1 .. m : cut[k - 1] < cut[k]
    BY Zenon DEF CutAt
  <1> DEFINE T == {k \in i .. m : ~(cut[i] <= cut[k])}
  <1>2. ASSUME NEW k \in i .. m, k # i => k - 1 \notin T PROVE k \notin T
    <2>1. CASE k = i
      <3>1. cut[i] \in Nat
        BY <1>1
      <3> QED
        BY <2>1, <3>1
    <2>2. CASE k # i
      <3>1. k - 1 \in i .. m /\ k \in 1 .. m /\ k - 1 \in 0 .. m /\ k \in 0 .. m
        BY <2>2
      <3>2. cut[i] <= cut[k - 1]
        BY <1>2, <2>2, <3>1
      <3>3. cut[i] \in Nat /\ cut[k - 1] \in Nat /\ cut[k] \in Nat /\ cut[k - 1] < cut[k]
        BY <1>1, <3>1
      <3>4. cut[i] <= cut[k]
        BY <3>2, <3>3
      <3> QED
        BY <3>4
    <2> QED
      BY <2>1, <2>2
  <1>3. T = {}
    <2>1. T \subseteq i .. m /\ i \in Nat
      OBVIOUS
    <2> HIDE DEF T
    <2> QED
      BY <1>2, <2>1, NoFirst
  <1>4. j \in i .. m
    OBVIOUS
  <1> QED
    BY <1>1, <1>3, <1>4

(* Every position lies between two cuts.                                   *)
LEMMA CutsCover ==
  ASSUME NEW chunks, NEW rows, NEW m \in Nat, NEW cut, CutAt(chunks, rows, m, cut),
         NEW p \in 1 .. Len(rows)
  PROVE  \E i \in 1 .. m : p \in cut[i - 1] + 1 .. cut[i]
  <1> DEFINE T == {i \in 0 .. m : p <= cut[i]}
  <1>1. cut \in [0 .. m -> Nat] /\ cut[0] = 0 /\ cut[m] = Len(rows)
    BY Zenon DEF CutAt
  <1>2. m \in 0 .. m
    OBVIOUS
  <1>3. Len(rows) \in Nat
    BY <1>1, <1>2
  <1>4. m \in T /\ T \subseteq Nat
    BY <1>1, <1>3
  <1>5. PICK i \in T : \A j \in T : i <= j
    BY <1>4, LeastNatural
  <1>6. i # 0
    <2>1. p <= cut[i] /\ 1 <= p /\ p \in Nat
      BY <1>3
    <2> QED
      BY <1>1, <2>1
  <1>7. i \in 1 .. m /\ i - 1 \in 0 .. m /\ ~(i <= i - 1)
    BY <1>6
  <1>8. ~(p <= cut[i - 1])
    BY <1>5, <1>7
  <1>9. cut[i - 1] \in Nat /\ cut[i] \in Nat /\ p \in Nat /\ p <= cut[i]
    BY <1>1, <1>3, <1>7
  <1>10. p \in cut[i - 1] + 1 .. cut[i]
    BY <1>8, <1>9
  <1> QED
    BY <1>7, <1>10, Zenon

(* A slice has the rows between its two cuts, at least one.                *)
Slice(chunk, rows, S, x, y) ==
  /\ chunk \in Seq(S) \ {<<>>}
  /\ x \in Nat /\ y \in Nat /\ y <= Len(rows)
  /\ ToSet(chunk) = {rows[p] : p \in x + 1 .. y}

LEMMA SliceRows ==
  ASSUME NEW S, NEW rows \in Seq(S), NEW chunks, NEW m \in Nat, NEW cut,
         CutAt(chunks, rows, m, cut), NEW i \in 1 .. m
  PROVE  Slice(chunks[i], rows, S, cut[i - 1], cut[i])
  <1> DEFINE x == cut[i - 1]
             y == cut[i]
             s == SubSeq(rows, x + 1, y)
  <1>1. chunks[i] = s
    BY Zenon DEF CutAt
  <1>2. i - 1 \in 0 .. m /\ i \in 0 .. m /\ m \in 0 .. m /\ i <= m
    OBVIOUS
  <1>3. x \in Nat /\ y \in Nat /\ x < y
    <2>1. cut \in [0 .. m -> Nat] /\ \A k \in 1 .. m : cut[k - 1] < cut[k]
      BY Zenon DEF CutAt
    <2> QED
      BY <1>2, <2>1
  <1>4. y <= Len(rows)
    <2>1. cut[i] <= cut[m]
      BY <1>2, CutsGrow
    <2> QED
      BY <2>1, Zenon DEF CutAt
  <1> HIDE DEF x, y
  <1>5. /\ s \in Seq(S) /\ Len(s) = y - x
        /\ \A k \in 1 .. y - x : s[k] = rows[x + k]
    BY <1>3, <1>4
  <1>6. s # <<>> /\ DOMAIN s = 1 .. y - x
    <2> HIDE DEF s
    <2> QED
      BY <1>3, <1>5
  <1>7. ToSet(s) = {rows[p] : p \in x + 1 .. y}
    <2>1. ASSUME NEW k \in 1 .. y - x PROVE s[k] \in {rows[p] : p \in x + 1 .. y}
      <3>1. x + k \in x + 1 .. y
        BY <1>3
      <3> QED
        BY <1>5, <3>1
    <2>2. ASSUME NEW p \in x + 1 .. y PROVE rows[p] \in {s[k] : k \in 1 .. y - x}
      <3>1. p - x \in 1 .. y - x /\ x + (p - x) = p
        BY <1>3
      <3>2. s[p - x] = rows[x + (p - x)]
        BY <1>5, <3>1
      <3> QED
        BY <3>1, <3>2
    <2>3. ToSet(s) = {s[k] : k \in 1 .. y - x}
      BY <1>6 DEF ToSet
    <2> HIDE DEF s
    <2> QED
      BY <2>1, <2>2, <2>3
  <1> HIDE DEF s
  <1>8. chunks[i] \in Seq(S) \ {<<>>} /\ ToSet(chunks[i]) = {rows[p] : p \in x + 1 .. y}
    BY <1>1, <1>5, <1>6, <1>7
  <1> QED
    BY <1>3, <1>4, <1>8, Zenon DEF Slice, x, y

-----------------------------------------------------------------------------
(* The work items of one group                                             *)

GroupType == n_rows \in [GroupKeys -> 0 .. MaxGroup]

LEMMA KeyIs ==
  ASSUME NEW k \in GroupKeys
  PROVE  k = <<k[1], k[2]>> /\ k[1] \in Nat /\ k[2] \in Targets
  BY NativeAssumption DEF Targets

LEMMA RowsOfType ==
  ASSUME GroupType, NEW k \in GroupKeys
  PROVE  /\ RowsOf(k) \in Seq(Row) /\ Len(RowsOf(k)) = n_rows[k] /\ n_rows[k] \in 0 .. MaxGroup
         /\ \A p \in 1 .. n_rows[k] : RowsOf(k)[p] = <<k[1], k[2], p>>
  <1>1. n_rows[k] \in 0 .. MaxGroup /\ MaxGroup \in Nat
    BY NativeAssumption DEF GroupType
  <1>2. \A p \in 1 .. n_rows[k] : <<k[1], k[2], p>> \in Row
    <2> TAKE p \in 1 .. n_rows[k]
    <2>1. p \in 1 .. MaxGroup
      BY <1>1
    <2> QED
      BY <2>1 DEF Row
  <1>3. RowsOf(k) \in [1 .. n_rows[k] -> Row]
    BY <1>2 DEF RowsOf
  <1>4. RowsOf(k) \in Seq(Row) /\ Len(RowsOf(k)) = n_rows[k]
    BY <1>1, <1>3
  <1> QED
    BY <1>1, <1>4 DEF RowsOf

ItemRows(x) == ToSet(x.rows)

(* Items of one block that share no row, and the rows they have.           *)
Apart(items) ==
  \A i, j \in 1 .. Len(items) : i # j => ItemRows(items[i]) \cap ItemRows(items[j]) = {}

AllRows(items) == UNION {ItemRows(items[i]) : i \in 1 .. Len(items)}

LEMMA ItemsOfGroup ==
  ASSUME GroupType, NEW k \in GroupKeys, n_rows[k] # 0, NEW size \in Nat \ {0}
  PROVE  /\ ItemsOf(k, size) \in Seq(Item)
         /\ \A i \in 1 .. Len(ItemsOf(k, size)) : ItemsOf(k, size)[i].block = k[1]
         /\ Apart(ItemsOf(k, size))
         /\ AllRows(ItemsOf(k, size)) = ToSet(RowsOf(k))
  <1> DEFINE rows == RowsOf(k)
             chunks == even_chunks(rows, size)
             items == ItemsOf(k, size)
  <1>1. /\ rows \in Seq(Row) /\ Len(rows) = n_rows[k] /\ n_rows[k] \in Nat /\ Len(rows) # 0
        /\ \A p \in 1 .. n_rows[k] : rows[p] = <<k[1], k[2], p>>
    <2>1. /\ rows \in Seq(Row) /\ Len(rows) = n_rows[k] /\ n_rows[k] \in 0 .. MaxGroup
          /\ \A p \in 1 .. n_rows[k] : rows[p] = <<k[1], k[2], p>>
      BY RowsOfType, Zenon
    <2>2. n_rows[k] \in Nat
      BY <2>1, NativeAssumption
    <2> QED
      BY <2>1, <2>2, Zenon
  <1> HIDE DEF rows
  <1>m. PICK m \in Nat \ {0} : \E cut : CutAt(chunks, rows, m, cut)
    BY <1>1, EvenCuts
  <1>2. PICK cut : CutAt(chunks, rows, m, cut)
    BY <1>m, Zenon
  <1>3. DOMAIN chunks = 1 .. m
    <2>1. chunks = [i \in 1 .. m |-> SubSeq(rows, cut[i - 1] + 1, cut[i])]
      BY <1>2, Zenon DEF CutAt
    <2> HIDE DEF chunks
    <2> QED
      BY <2>1
  <1>4. ASSUME NEW i \in 1 .. m
        PROVE  /\ chunks[i] \in Seq(Row) \ {<<>>}
               /\ cut[i - 1] \in Nat /\ cut[i] \in Nat /\ cut[i] <= Len(rows)
               /\ \A r : r \in ToSet(chunks[i]) <=>
                         \E p \in cut[i - 1] + 1 .. cut[i] : r = rows[p]
    <2> HIDE DEF chunks
    <2>1. m \in Nat
      OBVIOUS
    <2>2. Slice(chunks[i], rows, Row, cut[i - 1], cut[i])
      BY <1>1, <1>2, <2>1, SliceRows, Zenon
    <2> QED
      BY <2>2, Zenon DEF Slice
  <1>5. items = [i \in 1 .. m |-> [block |-> k[1], target |-> k[2], rows |-> chunks[i]]]
    BY <1>3, Zenon DEF ItemsOf, rows
  <1> HIDE DEF items, chunks
  <1>6. ASSUME NEW i \in 1 .. m
        PROVE  items[i] \in Item /\ items[i].block = k[1] /\ ItemRows(items[i]) = ToSet(chunks[i])
    <2>1. items[i] = [block |-> k[1], target |-> k[2], rows |-> chunks[i]]
      BY <1>5
    <2>2. chunks[i] \in Seq(Row) \ {<<>>} /\ k[1] \in Nat /\ k[2] \in Targets
      BY <1>4, KeyIs
    <2> QED
      BY <2>1, <2>2 DEF Item, ItemRows
  <1>7. items \in Seq(Item) /\ Len(items) = m
    <2>1. items \in [1 .. m -> Item]
      BY <1>5, <1>6
    <2> QED
      BY <2>1
  <1>8. ASSUME NEW i \in 1 .. m, NEW r \in ItemRows(items[i])
        PROVE  \E p \in 1 .. n_rows[k] : r = <<k[1], k[2], p>> /\ cut[i - 1] < p /\ p <= cut[i]
    <2>1. PICK p \in cut[i - 1] + 1 .. cut[i] : r = rows[p]
      <3>1. r \in ToSet(chunks[i])
        <4>1. ItemRows(items[i]) = ToSet(chunks[i])
          BY <1>6
        <4> QED
          BY <1>8, <4>1
      <3> QED
        BY <1>4, <3>1
    <2>2. p \in 1 .. n_rows[k] /\ cut[i - 1] < p /\ p <= cut[i]
      BY <1>1, <1>4
    <2> QED
      BY <1>1, <2>1, <2>2
  <1>9. ASSUME NEW i \in 1 .. m, NEW j \in 1 .. m, i < j
        PROVE  ItemRows(items[i]) \cap ItemRows(items[j]) = {}
    <2> SUFFICES ASSUME NEW r, r \in ItemRows(items[i]), r \in ItemRows(items[j]) PROVE FALSE
      OBVIOUS
    <2>1. PICK p \in 1 .. n_rows[k] : r = <<k[1], k[2], p>> /\ p <= cut[i]
      BY <1>8
    <2>2. PICK q \in 1 .. n_rows[k] : r = <<k[1], k[2], q>> /\ cut[j - 1] < q
      BY <1>8
    <2>3. p = q
      BY <2>1, <2>2
    <2>4. cut[i] <= cut[j - 1] /\ cut[i] \in Nat /\ cut[j - 1] \in Nat
      <3> DEFINE h == j - 1
      <3>1. i \in 0 .. m /\ h \in 0 .. m /\ i <= h
        BY <1>9
      <3> HIDE DEF h
      <3>2. cut[i] <= cut[h] /\ cut[i] \in Nat /\ cut[h] \in Nat
        BY <1>2, <3>1, CutsGrow
      <3> QED
        BY <3>2 DEF h
    <2>5. p \in Nat
      BY <1>1
    <2> QED
      BY <2>1, <2>2, <2>3, <2>4, <2>5
  <1>10. Apart(items)
    <2> SUFFICES ASSUME NEW i \in 1 .. m, NEW j \in 1 .. m, i # j
                 PROVE  ItemRows(items[i]) \cap ItemRows(items[j]) = {}
      BY <1>7 DEF Apart
    <2>1. i < j \/ j < i
      OBVIOUS
    <2> QED
      BY <1>9, <2>1
  <1>11. ToSet(rows) = {rows[p] : p \in 1 .. n_rows[k]}
    BY <1>1 DEF ToSet
  <1>12. ASSUME NEW r \in AllRows(items) PROVE r \in ToSet(rows)
    <2>1. PICK i \in 1 .. m : r \in ItemRows(items[i])
      BY <1>7 DEF AllRows
    <2>2. PICK p \in 1 .. n_rows[k] : r = <<k[1], k[2], p>>
      BY <1>8, <2>1
    <2> QED
      BY <1>1, <1>11, <2>2
  <1>13. ASSUME NEW r \in ToSet(rows) PROVE r \in AllRows(items)
    <2>1. PICK p \in 1 .. n_rows[k] : r = rows[p]
      BY <1>11
    <2>2. PICK i \in 1 .. m : p \in cut[i - 1] + 1 .. cut[i]
      <3>1. m \in Nat /\ p \in 1 .. Len(rows)
        BY <1>1
      <3>2. \E i \in 1 .. m : p \in cut[i - 1] + 1 .. cut[i]
        BY <1>2, <3>1, CutsCover, Zenon
      <3> QED
        BY <3>2, Zenon
    <2>3. r \in ItemRows(items[i])
      <3>1. r \in ToSet(chunks[i])
        BY <1>4, <2>1, <2>2
      <3>2. ItemRows(items[i]) = ToSet(chunks[i])
        BY <1>6
      <3> QED
        BY <3>1, <3>2
    <2> QED
      BY <1>7, <2>3 DEF AllRows
  <1>14. AllRows(items) = ToSet(rows)
    BY <1>12, <1>13, Zenon
  <1> QED
    BY <1>6, <1>7, <1>10, <1>14 DEF items, rows

-----------------------------------------------------------------------------
(* The work of a partition                                                 *)

RowsByItem == [x \in Item |-> ItemRows(x)]

LEMMA ItemViews ==
  ASSUME NEW items \in Seq(Item)
  PROVE  /\ Apart(items) <=> ApartBy(RowsByItem, items)
         /\ AllRows(items) = CoverBy(RowsByItem, items)
         /\ AllRows(items) = RowsInItems(items)
  <1>1. \A i \in 1 .. Len(items) : items[i] \in Item
    OBVIOUS
  <1>2. \A i \in 1 .. Len(items) : RowsByItem[items[i]] = ItemRows(items[i])
    BY <1>1, Zenon DEF RowsByItem
  <1>3. DOMAIN items = 1 .. Len(items)
    OBVIOUS
  <1>4. Apart(items) <=> ApartBy(RowsByItem, items)
    BY <1>2 DEF Apart, ApartBy
  <1>5. AllRows(items) = CoverBy(RowsByItem, items)
    BY <1>2 DEF AllRows, CoverBy
  <1>6. AllRows(items) = RowsInItems(items)
    BY <1>3, Zenon DEF AllRows, RowsInItems, ItemRows
  <1> QED
    BY <1>4, <1>5, <1>6, Zenon

(* The groups that are batched come in some order, each once.              *)
LEMMA OrderIs ==
  ASSUME NEW order \in SetToSeqs(Batched)
  PROVE  /\ order \in Seq(Batched) /\ DOMAIN order = 1 .. Len(order)
         /\ \A i, j \in 1 .. Len(order) : i # j => order[i] # order[j]
         /\ \A k \in Batched : \E i \in 1 .. Len(order) : order[i] = k
  <1> DEFINE N == Cardinality(Batched)
  <1>1. IsFiniteSet(Batched) /\ N \in Nat
    <2>1. Batched \in SUBSET GroupKeys /\ IsFiniteSet(GroupKeys)
      BY NativeAssumption DEF Batched
    <2>2. IsFiniteSet(Batched)
      BY <2>1, FS_Subset
    <2> QED
      BY <2>2, FS_CardinalityType
  <1>2. order \in [1 .. N -> Batched] /\ \A i, j \in 1 .. N : i # j => order[i] # order[j]
    BY Zenon DEF SetToSeqs
  <1>3. Cardinality(1 .. N) = N
    <2> HIDE DEF N
    <2>1. Cardinality(1 .. N) = IF 1 > N THEN 0 ELSE N - 1 + 1
      BY <1>1, FS_Interval
    <2> QED
      BY <1>1, <2>1
  <1>4. order \in Injection(1 .. N, Batched)
    BY <1>2 DEF Injection, IsInjective
  <1>5. order \in Surjection(1 .. N, Batched)
    <2> DEFINE D == 1 .. N
    <2>1. Cardinality(D) = Cardinality(Batched) /\ order \in Injection(D, Batched)
      BY <1>3, <1>4
    <2> HIDE DEF D
    <2>2. order \in Surjection(D, Batched)
      BY <1>1, <2>1, FS_Injection
    <2> QED
      BY <2>2 DEF D
  <1>6. \A k \in Batched : \E i \in 1 .. N : order[i] = k
    BY <1>5, Zenon DEF Surjection
  <1> HIDE DEF N
  <1>7. order \in Seq(Batched) /\ Len(order) = N /\ DOMAIN order = 1 .. N
    BY <1>1, <1>2
  <1> QED
    BY <1>2, <1>6, <1>7

WorkOf(order) == FlattenSeq([i \in DOMAIN order |-> ItemsOf(order[i], batch_size)])

(* The rows that are batched.                                              *)
BatchedRows == UNION {ToSet(RowsOf(k)) : k \in Batched}

LEMMA KeyOfRow ==
  ASSUME GroupType, NEW k \in GroupKeys, NEW r \in ToSet(RowsOf(k))
  PROVE  r[1] = k[1] /\ r[2] = k[2] /\ r[3] \in 1 .. n_rows[k] /\ r = <<k[1], k[2], r[3]>>
  <1>1. /\ DOMAIN RowsOf(k) = 1 .. n_rows[k]
        /\ \A p \in 1 .. n_rows[k] : RowsOf(k)[p] = <<k[1], k[2], p>>
    BY DEF RowsOf
  <1>2. PICK p \in 1 .. n_rows[k] : r = <<k[1], k[2], p>>
    BY <1>1 DEF ToSet
  <1> QED
    BY <1>2

LEMMA WorkIs ==
  ASSUME GroupType, batch_size \in BatchSizes, NEW order \in SetToSeqs(Batched)
  PROVE  /\ WorkOf(order) \in Seq(Item)
         /\ Apart(WorkOf(order))
         /\ RowsInItems(WorkOf(order)) = BatchedRows
  <1> DEFINE n == Len(order)
             seqs == [i \in DOMAIN order |-> ItemsOf(order[i], batch_size)]
             R == RowsByItem
             work == WorkOf(order)
  <1>1. /\ n \in Nat /\ order \in Seq(Batched) /\ DOMAIN order = 1 .. n
        /\ \A i, j \in 1 .. n : i # j => order[i] # order[j]
        /\ \A k \in Batched : \E i \in 1 .. n : order[i] = k
    <2>1. order \in Seq(Batched)
      BY OrderIs
    <2>2. n \in Nat
      BY <2>1
    <2> QED
      BY <2>2, OrderIs, Zenon
  <1>2. \A i \in 1 .. n : order[i] \in Batched
    BY <1>1
  <1> HIDE DEF n
  <1>3. ASSUME NEW k \in Batched
        PROVE  k \in GroupKeys /\ n_rows[k] # 0
    <2>1. k \in GroupKeys /\ n_rows[k] >= MinGroup
      BY DEF Batched
    <2>2. n_rows[k] \in Nat /\ MinGroup \in Nat \ {0}
      BY <2>1, NativeAssumption DEF GroupType
    <2> QED
      BY <2>1, <2>2
  <1>4. batch_size \in Nat \ {0}
    BY NativeAssumption
  <1>5. ASSUME NEW i \in 1 .. n
        PROVE  /\ seqs[i] \in Seq(Item) /\ ApartBy(R, seqs[i])
               /\ CoverBy(R, seqs[i]) = ToSet(RowsOf(order[i]))
    <2> DEFINE k == order[i]
    <2>1. k \in Batched /\ seqs[i] = ItemsOf(k, batch_size)
      BY <1>1, <1>2, Zenon
    <2> HIDE DEF k, seqs
    <2>2. /\ ItemsOf(k, batch_size) \in Seq(Item) /\ Apart(ItemsOf(k, batch_size))
          /\ AllRows(ItemsOf(k, batch_size)) = ToSet(RowsOf(k))
      BY <1>3, <1>4, <2>1, ItemsOfGroup
    <2>3. seqs[i] \in Seq(Item) /\ Apart(seqs[i]) /\ AllRows(seqs[i]) = ToSet(RowsOf(k))
      BY <2>1, <2>2, Zenon
    <2>4. ApartBy(R, seqs[i]) /\ CoverBy(R, seqs[i]) = AllRows(seqs[i])
      BY <2>3, ItemViews, Zenon
    <2> QED
      BY <2>3, <2>4, Zenon DEF k
  <1>6. seqs \in Seq(Seq(Item)) /\ Len(seqs) = n
    <2>1. seqs = [i \in 1 .. n |-> seqs[i]]
      BY <1>1
    <2> HIDE DEF seqs
    <2>2. seqs \in [1 .. n -> Seq(Item)]
      BY <1>5, <2>1
    <2> QED
      BY <1>1, <2>2
  <1>7. work = FlattenSeq(seqs)
    BY Zenon DEF WorkOf
  <1> HIDE DEF seqs, R, work
  <1>8. ASSUME NEW i \in 1 .. n, NEW j \in 1 .. n, i # j
        PROVE  CoverBy(R, seqs[i]) \cap CoverBy(R, seqs[j]) = {}
    <2> SUFFICES ASSUME NEW r, r \in ToSet(RowsOf(order[i])), r \in ToSet(RowsOf(order[j]))
                 PROVE  FALSE
      BY <1>5
    <2> DEFINE k == order[i]
               l == order[j]
    <2>1. k \in GroupKeys /\ l \in GroupKeys /\ k # l
      BY <1>1, <1>2, <1>3, <1>8
    <2>2. k = <<k[1], k[2]>> /\ l = <<l[1], l[2]>>
      BY <2>1, KeyIs
    <2> HIDE DEF k, l
    <2>3. r \in ToSet(RowsOf(k)) /\ r \in ToSet(RowsOf(l))
      BY DEF k, l
    <2>4. r[1] = k[1] /\ r[2] = k[2]
      BY <2>1, <2>3, KeyOfRow
    <2>5. r[1] = l[1] /\ r[2] = l[2]
      BY <2>1, <2>3, KeyOfRow
    <2>6. k = l
      BY <2>2, <2>4, <2>5, Zenon
    <2> QED
      BY <2>1, <2>6
  <1>9. ApartBy(R, work)
    <2>1. \A i \in 1 .. Len(seqs) : ApartBy(R, seqs[i])
      BY <1>5, <1>6
    <2>2. \A i, j \in 1 .. Len(seqs) :
            i # j => CoverBy(R, seqs[i]) \cap CoverBy(R, seqs[j]) = {}
      BY <1>6, <1>8
    <2> QED
      BY <1>6, <1>7, <2>1, <2>2, FlatApart
  <1>10. CoverBy(R, work) = BatchedRows
    <2>1. CoverBy(R, work) = UNION {CoverBy(R, seqs[i]) : i \in 1 .. n}
      BY <1>6, <1>7, FlatCover
    <2>2. ASSUME NEW r, r \in CoverBy(R, work) PROVE r \in BatchedRows
      <3>1. PICK i \in 1 .. n : r \in CoverBy(R, seqs[i])
        BY <2>1, <2>2
      <3>2. r \in ToSet(RowsOf(order[i]))
        BY <1>5, <3>1
      <3> QED
        BY <1>2, <3>2, Zenon DEF BatchedRows
    <2>3. ASSUME NEW r, r \in BatchedRows PROVE r \in CoverBy(R, work)
      <3>1. PICK k \in Batched : r \in ToSet(RowsOf(k))
        BY <2>3, Zenon DEF BatchedRows
      <3>2. PICK i \in 1 .. n : order[i] = k
        BY <1>1
      <3>3. r \in CoverBy(R, seqs[i])
        BY <1>5, <3>1, <3>2
      <3> QED
        BY <2>1, <3>3
    <2> QED
      BY <2>2, <2>3, Zenon
  <1>11. work \in Seq(Item)
    BY <1>6, <1>7, FlattenElements
  <1>12. Apart(work) /\ RowsInItems(work) = CoverBy(R, work)
    BY <1>9, <1>11, ItemViews DEF R
  <1> QED
    BY <1>10, <1>11, <1>12 DEF work

-----------------------------------------------------------------------------
(* Packing the items of one block                                          *)

RowsByRequest == [q \in Seq(Item) |-> RowsInItems(q)]

OneBlock(q, b) == \A i \in 1 .. Len(q) : q[i].block = b

(* A request that may be in a plan.                                        *)
Packable(q, b) ==
  /\ q \in Seq(Item) /\ q # <<>> /\ OneBlock(q, b)
  /\ Slots(q) <= MaxSlots \/ Len(q) = 1

(* Request p could not have taken the first item of request q.             *)
NoRoom(p, q) == Slots(p) + Len(q[1].rows) > MaxSlots

Served(rs, b) ==
  /\ rs \in Seq(Seq(Item))
  /\ \A g \in 1 .. Len(rs) : Packable(rs[g], b)
  /\ ApartBy(RowsByRequest, rs)
  /\ \A g \in 1 .. Len(rs) : g + 1 \in 1 .. Len(rs) => NoRoom(rs[g], rs[g + 1])

RowsPacked(rs) == CoverBy(RowsByRequest, rs)

LEMMA RowsAppend ==
  ASSUME NEW q \in Seq(Item), NEW x \in Item
  PROVE  RowsInItems(Append(q, x)) = RowsInItems(q) \cup ItemRows(x)
  <1>1. CoverBy(RowsByItem, Append(q, x)) = CoverBy(RowsByItem, q) \cup RowsByItem[x]
    BY CoverAppend
  <1>2. RowsByItem[x] = ItemRows(x)
    BY DEF RowsByItem
  <1>3. Append(q, x) \in Seq(Item)
    OBVIOUS
  <1> QED
    BY <1>1, <1>2, <1>3, ItemViews, Zenon

LEMMA RowsEmpty ==
  RowsInItems(<<>>) = {}
  BY DEF RowsInItems

LEMMA OneItem ==
  ASSUME NEW x \in Item
  PROVE  /\ <<x>> \in Seq(Item) /\ <<x>> # <<>> /\ Len(<<x>>) = 1 /\ <<x>>[1] = x
         /\ RowsInItems(<<x>>) = ItemRows(x)
         /\ OneBlock(<<x>>, x.block)
  <1>1. <<>> \in Seq(Item) /\ Append(<<>>, x) = <<x>>
    OBVIOUS
  <1>2. RowsInItems(<<x>>) = RowsInItems(<<>>) \cup ItemRows(x)
    BY <1>1, RowsAppend
  <1>3. RowsInItems(<<x>>) = ItemRows(x)
    BY <1>2, RowsEmpty
  <1> QED
    BY <1>3 DEF OneBlock

(* A request that the one before it had no room for is added.              *)
LEMMA PushRequest ==
  ASSUME NEW b, NEW rs, Served(rs, b), NEW q, Packable(q, b),
         RowsPacked(rs) \cap RowsInItems(q) = {},
         rs # <<>> => NoRoom(rs[Len(rs)], q)
  PROVE  /\ Served(Append(rs, q), b)
         /\ RowsPacked(Append(rs, q)) = RowsPacked(rs) \cup RowsInItems(q)
  <1> DEFINE n == Len(rs)
             t == Append(rs, q)
             R == RowsByRequest
  <1>1. rs \in Seq(Seq(Item)) /\ q \in Seq(Item)
    BY DEF Served, Packable
  <1>2. /\ n \in Nat /\ Len(t) = n + 1 /\ t[n + 1] = q /\ \A i \in 1 .. n : t[i] = rs[i]
        /\ t \in Seq(Seq(Item)) /\ (n # 0 => rs # <<>>)
    BY <1>1
  <1>3. \A i : i \in 1 .. n + 1 <=> i \in 1 .. n \/ i = n + 1
    BY <1>2
  <1>4. R[q] = RowsInItems(q)
    BY <1>1 DEF RowsByRequest
  <1>5. CoverBy(R, t) = CoverBy(R, rs) \cup RowsInItems(q)
    BY <1>1, <1>4, CoverAppend
  <1>6. ApartBy(R, t)
    <2>1. ApartBy(R, rs) /\ CoverBy(R, rs) \cap R[q] = {}
      BY <1>4 DEF Served, RowsPacked
    <2> HIDE DEF R
    <2> QED
      BY <1>1, <2>1, ApartAppend
  <1> HIDE DEF t, n, R
  <1>7. \A g \in 1 .. n + 1 : Packable(t[g], b)
    <2>1. \A g \in 1 .. n : Packable(rs[g], b)
      BY Zenon DEF Served, n
    <2> QED
      BY <1>2, <1>3, <2>1
  <1>8. ASSUME NEW g \in 1 .. n + 1, g + 1 \in 1 .. n + 1 PROVE NoRoom(t[g], t[g + 1])
    <2>1. g \in 1 .. n /\ (g + 1 \in 1 .. n \/ g = n)
      BY <1>2, <1>8
    <2>2. CASE g + 1 \in 1 .. n
      <3>1. NoRoom(rs[g], rs[g + 1])
        BY <2>1, <2>2, Zenon DEF Served, n
      <3> QED
        BY <1>2, <2>1, <2>2, <3>1
    <2>3. CASE g = n
      <3>1. rs # <<>>
        BY <1>2, <2>1, <2>3
      <3>2. NoRoom(rs[n], q)
        BY <3>1 DEF n
      <3>3. t[g] = rs[n] /\ t[g + 1] = q
        BY <1>2, <2>1, <2>3
      <3> QED
        BY <3>2, <3>3
    <2> QED
      BY <2>1, <2>2, <2>3
  <1>9. Served(t, b)
    BY <1>2, <1>6, <1>7, <1>8, Zenon DEF Served, R
  <1> QED
    BY <1>5, <1>9 DEF t, R, RowsPacked

(* The state of the packing loop.                                          *)
Packing == [requests : Seq(Seq(Item)), filling : Seq(Item)]

LEMMA PackForms ==
  ASSUME NEW s \in Packing, NEW x \in Item
  PROVE  /\ Len(x.rows) > MaxSlots =>
              Pack(s, x) = [requests |-> Append(s.requests, <<x>>), filling |-> s.filling]
         /\ Len(x.rows) <= MaxSlots /\ Slots(s.filling) + Len(x.rows) <= MaxSlots =>
              Pack(s, x) = [requests |-> s.requests, filling |-> Append(s.filling, x)]
         /\ Len(x.rows) <= MaxSlots /\ Slots(s.filling) + Len(x.rows) > MaxSlots =>
              /\ s.filling # <<>>
              /\ Pack(s, x) = [requests |-> Append(s.requests, s.filling), filling |-> <<x>>]
  <1> DEFINE rq == s.requests
             fl == s.filling
             n == Len(x.rows)
  <1>1. s = [requests |-> rq, filling |-> fl] /\ rq \in Seq(Seq(Item)) /\ fl \in Seq(Item)
    BY DEF Packing
  <1>2. n \in Nat /\ Slots(fl) \in Nat /\ MaxSlots \in Nat
    <2>1. Slots(fl) \in Nat
      <3> HIDE DEF fl
      <3> QED
        BY <1>1, SlotsType
    <2> QED
      BY <2>1, ItemFields, NativeAssumption
  <1>3. /\ [s EXCEPT !.requests = Append(@, <<x>>)] = [requests |-> Append(rq, <<x>>), filling |-> fl]
        /\ [s EXCEPT !.filling = Append(@, x)] = [requests |-> rq, filling |-> Append(fl, x)]
    <2> DEFINE c == Append(rq, <<x>>)
               d == Append(fl, x)
    <2> HIDE DEF c, d
    <2>1. s = [requests |-> rq, filling |-> fl]
      BY <1>1
    <2>2. [s EXCEPT !.requests = c] = [requests |-> c, filling |-> fl]
      BY <2>1
    <2>3. [s EXCEPT !.filling = d] = [requests |-> rq, filling |-> d]
      BY <2>1
    <2> QED
      BY <2>2, <2>3, Zenon DEF c, d
  <1>4. Append(<<>>, x) = <<x>>
    OBVIOUS
  <1>5. ASSUME n > MaxSlots PROVE Pack(s, x) = [requests |-> Append(rq, <<x>>), filling |-> fl]
    BY <1>3, <1>5 DEF Pack
  <1>6. ASSUME n <= MaxSlots, Slots(fl) + n <= MaxSlots
        PROVE  Pack(s, x) = [requests |-> rq, filling |-> Append(fl, x)]
    <2>1. ~(n > MaxSlots)
      BY <1>2, <1>6
    <2> QED
      BY <1>3, <1>6, <2>1, Zenon DEF Pack
  <1>7. ASSUME n <= MaxSlots, Slots(fl) + n > MaxSlots
        PROVE  fl # <<>> /\ Pack(s, x) = [requests |-> Append(rq, fl), filling |-> <<x>>]
    <2>1. fl # <<>>
      <3> SUFFICES ASSUME fl = <<>> PROVE FALSE
        OBVIOUS
      <3>1. Slots(fl) = 0
        BY SlotsEmpty
      <3> QED
        BY <1>2, <1>7, <3>1
    <2>2. ~(n > MaxSlots) /\ ~(Slots(fl) + n <= MaxSlots)
      BY <1>2, <1>7
    <2>3. Flush(s) = [requests |-> Append(rq, fl), filling |-> <<>>]
      BY <2>1, Zenon DEF Flush
    <2>4. Pack(s, x) = [Flush(s) EXCEPT !.filling = Append(@, x)]
      BY <2>2, Zenon DEF Pack
    <2>5. [Flush(s) EXCEPT !.filling = Append(@, x)] =
            [requests |-> Append(rq, fl), filling |-> Append(<<>>, x)]
      <3> DEFINE c == Append(rq, fl)
                 d == Append(<<>>, x)
                 u == Flush(s)
      <3>1. u = [requests |-> c, filling |-> <<>>]
        BY <2>3
      <3> HIDE DEF c, d, u
      <3>2. u.filling = <<>>
        BY <3>1
      <3>3. [u EXCEPT !.filling = d] = [requests |-> c, filling |-> d]
        BY <3>1
      <3> QED
        BY <3>2, <3>3, Zenon DEF c, d, u
    <2> QED
      BY <1>4, <2>1, <2>4, <2>5
  <1> QED
    BY <1>5, <1>6, <1>7, Zenon

(* What is true of it after the items that have the rows taken.            *)
Pending(rq, fl) ==
  rq # <<>> => \/ Slots(rq[Len(rq)]) > MaxSlots
               \/ fl # <<>> /\ NoRoom(rq[Len(rq)], fl)

Loop(s, b, taken) ==
  /\ s \in Packing
  /\ Served(s.requests, b)
  /\ OneBlock(s.filling, b) /\ Slots(s.filling) <= MaxSlots
  /\ RowsPacked(s.requests) \cap RowsInItems(s.filling) = {}
  /\ RowsPacked(s.requests) \cup RowsInItems(s.filling) = taken
  /\ Pending(s.requests, s.filling)

LEMMA FullIsNoRoom ==
  ASSUME NEW b, NEW rq, Served(rq, b), rq # <<>>, NEW q, Packable(q, b),
         Slots(rq[Len(rq)]) > MaxSlots \/ Len(q[1].rows) > MaxSlots
  PROVE  NoRoom(rq[Len(rq)], q)
  <1>1. rq \in Seq(Seq(Item)) /\ q \in Seq(Item) /\ q # <<>>
    BY DEF Served, Packable
  <1>2. rq[Len(rq)] \in Seq(Item)
    BY <1>1
  <1>3. q[1] \in Item
    BY <1>1
  <1>4. Slots(rq[Len(rq)]) \in Nat /\ Len(q[1].rows) \in Nat /\ MaxSlots \in Nat
    BY <1>2, <1>3, SlotsType, ItemFields, NativeAssumption
  <1> QED
    BY <1>4 DEF NoRoom

LEMMA PackStep ==
  ASSUME NEW b, NEW taken, NEW s, Loop(s, b, taken),
         NEW x \in Item, x.block = b, ItemRows(x) \cap taken = {}
  PROVE  Loop(Pack(s, x), b, taken \cup ItemRows(x))
  <1> DEFINE rq == s.requests
             fl == s.filling
             n == Len(x.rows)
  <1>1. /\ s \in Packing /\ rq \in Seq(Seq(Item)) /\ fl \in Seq(Item)
        /\ Served(rq, b) /\ OneBlock(fl, b) /\ Slots(fl) <= MaxSlots
        /\ RowsPacked(rq) \cap RowsInItems(fl) = {}
        /\ RowsPacked(rq) \cup RowsInItems(fl) = taken
        /\ Pending(rq, fl)
    BY DEF Loop, Packing
  <1>2. n \in Nat /\ MaxSlots \in Nat /\ Slots(fl) \in Nat
    <2>1. Slots(fl) \in Nat
      <3> HIDE DEF fl
      <3> QED
        BY <1>1, SlotsType
    <2> QED
      BY <2>1, ItemFields, NativeAssumption
  <1>3. /\ <<x>> \in Seq(Item) /\ <<x>> # <<>> /\ Len(<<x>>) = 1 /\ <<x>>[1] = x
        /\ RowsInItems(<<x>>) = ItemRows(x) /\ OneBlock(<<x>>, b) /\ Slots(<<x>>) = n
    BY OneItem, SlotsOne
  <1> DEFINE t == Pack(s, x)
  <1>4. ASSUME NEW rs, NEW f, t = [requests |-> rs, filling |-> f],
               Served(rs, b), f \in Seq(Item), OneBlock(f, b), Slots(f) <= MaxSlots,
               RowsPacked(rs) \cap RowsInItems(f) = {},
               RowsPacked(rs) \cup RowsInItems(f) = taken \cup ItemRows(x),
               Pending(rs, f)
        PROVE  Loop(t, b, taken \cup ItemRows(x))
    <2> HIDE DEF t
    <2>1. t.requests = rs /\ t.filling = f /\ rs \in Seq(Seq(Item))
      BY <1>4 DEF Served
    <2>2. t \in Packing
      BY <1>4, <2>1 DEF Packing
    <2> QED
      BY <1>4, <2>1, <2>2, Zenon DEF Loop
  <1>5. CASE n > MaxSlots
    <2> DEFINE rs == Append(rq, <<x>>)
    <2>1. t = [requests |-> rs, filling |-> fl]
      BY <1>1, <1>5, PackForms
    <2> HIDE DEF rq, fl, t
    <2>2. Packable(<<x>>, b)
      BY <1>3, Zenon DEF Packable
    <2>3. rq # <<>> => NoRoom(rq[Len(rq)], <<x>>)
      BY <1>1, <1>3, <1>5, <2>2, FullIsNoRoom
    <2>4. RowsPacked(rq) \cap RowsInItems(<<x>>) = {}
      BY <1>1, <1>3
    <2>5. Served(rs, b) /\ RowsPacked(rs) = RowsPacked(rq) \cup ItemRows(x)
      BY <1>1, <1>3, <2>2, <2>3, <2>4, PushRequest
    <2>6. rs[Len(rs)] = <<x>>
      BY <1>1, <1>3
    <2>7. Pending(rs, fl)
      BY <1>3, <1>5, <2>6, Zenon DEF Pending
    <2>8. RowsPacked(rs) \cap RowsInItems(fl) = {} /\ RowsPacked(rs) \cup RowsInItems(fl) = taken \cup ItemRows(x)
      BY <1>1, <2>5
    <2> HIDE DEF rs
    <2>9. Loop(t, b, taken \cup ItemRows(x))
      BY <1>1, <1>4, <2>1, <2>5, <2>7, <2>8, Zenon
    <2> QED
      BY <2>9 DEF t
  <1>6. CASE n <= MaxSlots /\ Slots(fl) + n <= MaxSlots
    <2> DEFINE f == Append(fl, x)
    <2>1. t = [requests |-> rq, filling |-> f]
      BY <1>1, <1>6, PackForms
    <2> HIDE DEF rq, fl, t
    <2>2. Slots(f) <= MaxSlots
      <3>1. Slots(f) = Slots(fl) + n
        BY <1>1, SlotsAppend
      <3> QED
        BY <1>6, <3>1
    <2>3. RowsInItems(f) = RowsInItems(fl) \cup ItemRows(x)
      BY <1>1, RowsAppend
    <2>4. f \in Seq(Item) /\ f # <<>> /\ (fl # <<>> => f[1] = fl[1])
      <3>1. f \in Seq(Item) /\ Len(f) = Len(fl) + 1 /\ Len(fl) \in Nat
        BY <1>1
      <3>2. \A i \in 1 .. Len(fl) : f[i] = fl[i]
        BY <1>1
      <3>3. fl # <<>> => 1 \in 1 .. Len(fl)
        BY <1>1
      <3> HIDE DEF f
      <3>4. f # <<>>
        BY <3>1
      <3> QED
        BY <3>1, <3>2, <3>3, <3>4, Zenon
    <2>5. OneBlock(f, b)
      <3>1. \A i \in 1 .. Len(fl) : fl[i].block = b
        BY <1>1 DEF OneBlock
      <3>2. /\ Len(f) = Len(fl) + 1 /\ Len(fl) \in Nat /\ f[Len(fl) + 1] = x
            /\ \A i \in 1 .. Len(fl) : f[i] = fl[i]
        BY <1>1
      <3> HIDE DEF f
      <3>3. \A i \in 1 .. Len(f) : i \in 1 .. Len(fl) \/ i = Len(fl) + 1
        BY <3>2
      <3> QED
        BY <3>1, <3>2, <3>3 DEF OneBlock
    <2> HIDE DEF f
    <2>6. Pending(rq, f)
      BY <1>1, <2>4 DEF Pending, NoRoom
    <2>7. RowsPacked(rq) \cap RowsInItems(f) = {} /\ RowsPacked(rq) \cup RowsInItems(f) = taken \cup ItemRows(x)
      BY <1>1, <2>3
    <2>8. Loop(t, b, taken \cup ItemRows(x))
      BY <1>1, <1>4, <2>1, <2>2, <2>4, <2>5, <2>6, <2>7, Zenon
    <2> QED
      BY <2>8 DEF t
  <1>7. CASE n <= MaxSlots /\ Slots(fl) + n > MaxSlots
    <2> DEFINE rs == Append(rq, fl)
    <2>1. fl # <<>> /\ t = [requests |-> rs, filling |-> <<x>>]
      BY <1>1, <1>7, PackForms
    <2> HIDE DEF rq, fl, t
    <2>2. Packable(fl, b)
      BY <1>1, <2>1, Zenon DEF Packable
    <2>3. rq # <<>> => NoRoom(rq[Len(rq)], fl)
      BY <1>1, <2>2, FullIsNoRoom DEF Pending
    <2>4. Served(rs, b) /\ RowsPacked(rs) = RowsPacked(rq) \cup RowsInItems(fl)
      BY <1>1, <2>2, <2>3, PushRequest
    <2>5. rs[Len(rs)] = fl
      BY <1>1
    <2>6. NoRoom(fl, <<x>>)
      BY <1>3, <1>7, Zenon DEF NoRoom
    <2>7. Pending(rs, <<x>>)
      BY <1>3, <2>5, <2>6, Zenon DEF Pending
    <2>8. /\ RowsPacked(rs) \cap RowsInItems(<<x>>) = {}
          /\ RowsPacked(rs) \cup RowsInItems(<<x>>) = taken \cup ItemRows(x)
      BY <1>1, <1>3, <2>4
    <2>9. Slots(<<x>>) <= MaxSlots
      BY <1>3, <1>7
    <2> HIDE DEF rs
    <2>10. Loop(t, b, taken \cup ItemRows(x))
      BY <1>3, <1>4, <2>1, <2>4, <2>7, <2>8, <2>9, Zenon
    <2> QED
      BY <2>10 DEF t
  <1> QED
    <2> HIDE DEF fl, t
    <2>1. n > MaxSlots \/ (n <= MaxSlots /\ Slots(fl) + n <= MaxSlots) \/ (n <= MaxSlots /\ Slots(fl) + n > MaxSlots)
      BY <1>2
    <2> QED
      BY <1>5, <1>6, <1>7, <2>1 DEF t

LEMMA PackType ==
  ASSUME NEW s \in Packing, NEW x \in Item
  PROVE  Pack(s, x) \in Packing
  <1> DEFINE rq == s.requests
             fl == s.filling
             n == Len(x.rows)
  <1>1. rq \in Seq(Seq(Item)) /\ fl \in Seq(Item) /\ <<x>> \in Seq(Item)
    BY DEF Packing
  <1>2. /\ n > MaxSlots =>
             Pack(s, x) = [requests |-> Append(rq, <<x>>), filling |-> fl]
        /\ n <= MaxSlots /\ Slots(fl) + n <= MaxSlots =>
             Pack(s, x) = [requests |-> rq, filling |-> Append(fl, x)]
        /\ n <= MaxSlots /\ Slots(fl) + n > MaxSlots =>
             Pack(s, x) = [requests |-> Append(rq, fl), filling |-> <<x>>]
    BY PackForms, Zenon
  <1> HIDE DEF rq, fl
  <1>3. n \in Nat /\ MaxSlots \in Nat /\ Slots(fl) \in Nat
    BY <1>1, SlotsType, ItemFields, NativeAssumption
  <1>4. /\ Append(rq, <<x>>) \in Seq(Seq(Item)) /\ Append(rq, fl) \in Seq(Seq(Item))
        /\ Append(fl, x) \in Seq(Item)
    <2>1. \A z \in Seq(Item) : Append(rq, z) \in Seq(Seq(Item))
      BY <1>1
    <2>2. Append(fl, x) \in Seq(Item)
      BY <1>1
    <2> QED
      BY <1>1, <2>1, <2>2, Zenon
  <1>5. \A p \in Seq(Seq(Item)), q \in Seq(Item) : [requests |-> p, filling |-> q] \in Packing
    BY DEF Packing
  <1>6. n > MaxSlots \/ (n <= MaxSlots /\ Slots(fl) + n <= MaxSlots)
                     \/ (n <= MaxSlots /\ Slots(fl) + n > MaxSlots)
    BY <1>3
  <1> QED
    BY <1>1, <1>2, <1>4, <1>5, <1>6, Zenon

Empty == [requests |-> <<>>, filling |-> <<>>]

LEMMA LoopStart ==
  ASSUME NEW b
  PROVE  Empty \in Packing /\ Loop(Empty, b, {})
  <1>1. Empty.requests = <<>> /\ Empty.filling = <<>> /\ Empty \in Packing
    BY DEF Empty, Packing
  <1>2. Served(<<>>, b)
    BY DEF Served, ApartBy
  <1>3. RowsPacked(<<>>) = {}
    BY DEF RowsPacked, CoverBy
  <1>4. OneBlock(<<>>, b) /\ Slots(<<>>) <= MaxSlots
    BY SlotsEmpty, NativeAssumption DEF OneBlock
  <1>5. Pending(<<>>, <<>>)
    BY DEF Pending
  <1> QED
    BY <1>1, <1>2, <1>3, <1>4, <1>5, RowsEmpty DEF Loop

(* The rows of the items of block b among the first n.                     *)
RowsAt(work, b, n) == UNION {ItemRows(work[i]) : i \in {j \in 1 .. n : work[j].block = b}}

LEMMA RowsAtNext ==
  ASSUME NEW work \in Seq(Item), Apart(work), NEW b, NEW n \in 1 .. Len(work)
  PROVE  /\ work[n].block = b => /\ RowsAt(work, b, n) = RowsAt(work, b, n - 1) \cup ItemRows(work[n])
                                 /\ ItemRows(work[n]) \cap RowsAt(work, b, n - 1) = {}
         /\ work[n].block # b => RowsAt(work, b, n) = RowsAt(work, b, n - 1)
  <1> DEFINE m == n - 1
  <1>1. \A i : i \in 1 .. n <=> i \in 1 .. m \/ i = n
    OBVIOUS
  <1>2. \A i \in 1 .. m : i \in 1 .. Len(work) /\ i # n
    OBVIOUS
  <1> HIDE DEF m
  <1>3. ASSUME work[n].block = b PROVE RowsAt(work, b, n) = RowsAt(work, b, m) \cup ItemRows(work[n])
    BY <1>1, <1>3 DEF RowsAt
  <1>4. ItemRows(work[n]) \cap RowsAt(work, b, m) = {}
    BY <1>2 DEF RowsAt, Apart
  <1>5. ASSUME work[n].block # b PROVE RowsAt(work, b, n) = RowsAt(work, b, m)
    BY <1>1, <1>5 DEF RowsAt
  <1> QED
    BY <1>3, <1>4, <1>5, Zenon DEF m

(* The loop over the work has been through the items of block b.           *)
Unfolds(f, work, b) ==
  f = [i \in 0 .. Len(work) |->
         IF i = 0 THEN [requests |-> <<>>, filling |-> <<>>]
         ELSE IF work[i].block = b THEN Pack(f[i - 1], work[i])
         ELSE f[i - 1]]

LEMMA PackingUnfolds ==
  ASSUME NEW work \in Seq(Item), NEW b
  PROVE  \E f : Unfolds(f, work, b) /\ PackBlock(work, b) = Flush(f[Len(work)]).requests
  <1> DEFINE n == Len(work)
             next(i, s) == IF work[i].block = b THEN Pack(s, work[i]) ELSE s
             h == [p \in (1 .. n) \X Packing |-> next(p[1], p[2])]
  <1>1. n \in Nat /\ Empty \in Packing
    BY LoopStart
  <1>2. \A i \in 1 .. n, s \in Packing : next(i, s) \in Packing
    BY PackType
  <1>3. h \in [(1 .. n) \X Packing -> Packing] /\ \A i \in 1 .. n, s \in Packing : h[<<i, s>>] = next(i, s)
    <2> HIDE DEF next, n
    <2> QED
      BY <1>2
  <1>4. PICK f \in [0 .. n -> Packing] : f[0] = Empty /\ \A i \in 1 .. n : f[i] = h[<<i, f[i - 1]>>]
    <2> HIDE DEF h, n
    <2>1. Foldings(n, Packing, Empty, h) # {}
      BY <1>1, <1>3, Folding
    <2> QED
      BY <2>1 DEF Foldings
  <1>5. ASSUME NEW i \in 0 .. n
        PROVE  f[i] = IF i = 0 THEN Empty ELSE IF work[i].block = b THEN Pack(f[i - 1], work[i]) ELSE f[i - 1]
    <2>1. CASE i = 0
      BY <1>4, <2>1
    <2>2. CASE i # 0
      <3>1. i \in 1 .. n /\ i - 1 \in 0 .. n
        BY <1>1, <2>2
      <3>2. f[i - 1] \in Packing
        BY <1>4, <3>1
      <3> HIDE DEF h
      <3>3. f[i] = next(i, f[i - 1])
        BY <1>3, <1>4, <3>1, <3>2
      <3> QED
        BY <2>2, <3>3, Zenon
    <2> QED
      BY <2>1, <2>2
  <1>6. Unfolds(f, work, b)
    <2>1. f = [i \in 0 .. n |-> f[i]]
      BY <1>4
    <2>2. f = [i \in 0 .. n |-> IF i = 0 THEN Empty
                                ELSE IF work[i].block = b THEN Pack(f[i - 1], work[i]) ELSE f[i - 1]]
      <3> DEFINE e(i) == IF i = 0 THEN Empty
                         ELSE IF work[i].block = b THEN Pack(f[i - 1], work[i]) ELSE f[i - 1]
      <3>1. \A i \in 0 .. n : f[i] = e(i)
        BY <1>5
      <3> HIDE DEF e
      <3>2. f = [i \in 0 .. n |-> e(i)]
        BY <2>1, <3>1
      <3> QED
        BY <3>2 DEF e
    <2> QED
      BY <2>2, Zenon DEF Unfolds, Empty
  <1> DEFINE g == CHOOSE z : Unfolds(z, work, b)
  <1>7. Unfolds(g, work, b)
    BY <1>6
  <1>8. PackBlock(work, b) = Flush(g[n]).requests
    BY DEF PackBlock, Unfolds
  <1> QED
    BY <1>7, <1>8

LEMMA PackBlockIs ==
  ASSUME NEW work \in Seq(Item), Apart(work), NEW b
  PROVE  /\ Served(PackBlock(work, b), b)
         /\ RowsPacked(PackBlock(work, b)) = RowsAt(work, b, Len(work))
  <1> DEFINE n == Len(work)
  <1>1. PICK g : Unfolds(g, work, b) /\ PackBlock(work, b) = Flush(g[n]).requests
    BY PackingUnfolds
  <1> DEFINE T == {i \in 0 .. n : ~Loop(g[i], b, RowsAt(work, b, i))}
  <1>2. n \in Nat
    OBVIOUS
  <1>3. ASSUME NEW i \in 0 .. n, i # 0 => i - 1 \notin T PROVE i \notin T
    <2>1. g[i] = IF i = 0 THEN Empty ELSE IF work[i].block = b THEN Pack(g[i - 1], work[i]) ELSE g[i - 1]
      BY <1>1, Zenon DEF Unfolds, Empty
    <2>2. CASE i = 0
      <3>1. RowsAt(work, b, i) = {}
        BY <2>2 DEF RowsAt
      <3>2. g[i] = Empty
        BY <2>1, <2>2, Zenon
      <3>3. Loop(g[i], b, RowsAt(work, b, i))
        BY <3>1, <3>2, LoopStart, Zenon
      <3> QED
        BY <3>3
    <2>3. CASE i # 0
      <3>1. i \in 1 .. n /\ i - 1 \in 0 .. n /\ work[i] \in Item
        BY <1>2, <2>3
      <3>2. Loop(g[i - 1], b, RowsAt(work, b, i - 1))
        BY <1>3, <2>3, <3>1
      <3>3. CASE work[i].block = b
        <4>1. /\ RowsAt(work, b, i) = RowsAt(work, b, i - 1) \cup ItemRows(work[i])
              /\ ItemRows(work[i]) \cap RowsAt(work, b, i - 1) = {}
          BY <3>1, <3>3, RowsAtNext
        <4>2. Loop(Pack(g[i - 1], work[i]), b, RowsAt(work, b, i - 1) \cup ItemRows(work[i]))
          BY <3>1, <3>2, <3>3, <4>1, PackStep
        <4>3. g[i] = Pack(g[i - 1], work[i])
          BY <2>1, <2>3, <3>3, Zenon
        <4>4. Loop(g[i], b, RowsAt(work, b, i))
          BY <4>1, <4>2, <4>3, Zenon
        <4> QED
          BY <4>4
      <3>4. CASE work[i].block # b
        <4>1. RowsAt(work, b, i) = RowsAt(work, b, i - 1)
          BY <3>1, <3>4, RowsAtNext
        <4>2. g[i] = g[i - 1]
          BY <2>1, <2>3, <3>4, Zenon
        <4>3. Loop(g[i], b, RowsAt(work, b, i))
          BY <3>2, <4>1, <4>2, Zenon
        <4> QED
          BY <4>3
      <3> QED
        BY <3>3, <3>4
    <2> QED
      BY <2>2, <2>3
  <1>4. T = {}
    <2>1. T \subseteq 0 .. n /\ 0 \in Nat
      OBVIOUS
    <2> HIDE DEF T, n
    <2> QED
      BY <1>2, <1>3, <2>1, NoFirst
  <1> DEFINE s == g[n]
             rq == s.requests
             fl == s.filling
             taken == RowsAt(work, b, n)
  <1>5. Loop(s, b, taken)
    BY <1>2, <1>4
  <1>6. /\ fl \in Seq(Item) /\ Served(rq, b) /\ OneBlock(fl, b) /\ Slots(fl) <= MaxSlots
        /\ RowsPacked(rq) \cap RowsInItems(fl) = {}
        /\ RowsPacked(rq) \cup RowsInItems(fl) = taken
        /\ Pending(rq, fl)
    <2> HIDE DEF s, taken
    <2>1. s \in Packing => fl \in Seq(Item)
      BY DEF Packing
    <2> QED
      BY <1>5, <2>1, Zenon DEF Loop
  <1>7. CASE fl = <<>>
    <2>1. Flush(s).requests = rq
      BY <1>7, Zenon DEF Flush
    <2>2. RowsInItems(fl) = {}
      BY <1>7, RowsEmpty
    <2> HIDE DEF rq, fl
    <2> QED
      BY <1>1, <1>6, <2>1, <2>2
  <1>8. CASE fl # <<>>
    <2>1. Flush(s).requests = Append(rq, fl)
      BY <1>8 DEF Flush
    <2> HIDE DEF rq, fl
    <2>2. Packable(fl, b)
      BY <1>6, <1>8, Zenon DEF Packable
    <2>3. rq # <<>> => NoRoom(rq[Len(rq)], fl)
      BY <1>6, <2>2, FullIsNoRoom DEF Pending
    <2>4. Served(Append(rq, fl), b) /\ RowsPacked(Append(rq, fl)) = RowsPacked(rq) \cup RowsInItems(fl)
      BY <1>6, <2>2, <2>3, PushRequest
    <2> QED
      BY <1>1, <1>6, <2>1, <2>4
  <1> QED
    BY <1>7, <1>8

-----------------------------------------------------------------------------
(* The plan                                                                *)

LEMMA LastBlockIs ==
  ASSUME NEW work \in Seq(Item)
  PROVE  /\ LastBlock(work) \in Nat
         /\ \A i \in 1 .. Len(work) : work[i].block <= LastBlock(work)
  <1> DEFINE n == Len(work)
             B == {0} \cup {work[i].block : i \in DOMAIN work}
             Bounded(m) == \E u \in Nat : \A i \in 1 .. m : work[i].block <= u
             T == {m \in 0 .. n : ~Bounded(m)}
  <1>1. n \in Nat /\ DOMAIN work = 1 .. n /\ \A i \in 1 .. n : work[i].block \in Nat
    BY ItemFields
  <1>2. ASSUME NEW m \in 0 .. n, m # 0 => m - 1 \notin T PROVE m \notin T
    <2>1. CASE m = 0
      BY <2>1
    <2>2. CASE m # 0
      <3>1. m - 1 \in 0 .. n /\ m \in 1 .. n /\ \A i \in 1 .. m : i \in 1 .. m - 1 \/ i = m
        BY <1>1, <2>2
      <3>2. Bounded(m - 1)
        BY <1>2, <2>2, <3>1
      <3>3. PICK u \in Nat : \A i \in 1 .. m - 1 : work[i].block <= u
        BY <3>2
      <3>4. \A i \in 1 .. m : work[i].block <= u + work[m].block
        <4> TAKE i \in 1 .. m
        <4>1. i \in 1 .. n
          BY <1>1, <3>1
        <4>2. work[i].block \in Nat /\ work[m].block \in Nat
          BY <1>1, <3>1, <4>1
        <4>3. work[i].block <= u \/ i = m
          BY <3>1, <3>3
        <4> QED
          BY <4>2, <4>3
      <3>5. u + work[m].block \in Nat
        BY <1>1, <3>1
      <3>6. Bounded(m)
        BY <3>4, <3>5, Zenon
      <3> QED
        BY <3>6
    <2> QED
      BY <2>1, <2>2
  <1>3. T = {}
    <2>1. T \subseteq 0 .. n /\ 0 \in Nat
      OBVIOUS
    <2> HIDE DEF T, n
    <2> QED
      BY <1>1, <1>2, <2>1, NoFirst
  <1>4. Bounded(n)
    <2>1. n \in 0 .. n
      BY <1>1
    <2> HIDE DEF Bounded, n
    <2> QED
      BY <1>3, <2>1
  <1>5. PICK u \in Nat : \A i \in 1 .. n : work[i].block <= u
    BY <1>4
  <1>6. 0 \in B /\ B \subseteq Nat /\ \A x \in B : x <= u
    BY <1>1, <1>5
  <1> HIDE DEF B
  <1>7. \E x \in B : \A y \in B : x >= y
    <2> DEFINE G == {u - x : x \in B}
    <2>1. G \subseteq Nat /\ G # {}
      <3>1. \A x \in B : u - x \in Nat
        BY <1>6
      <3> QED
        BY <1>6, <3>1
    <2>2. PICK d \in G : \A e \in G : d <= e
      BY <2>1, LeastNatural
    <2>3. PICK x \in B : d = u - x
      OBVIOUS
    <2>4. \A y \in B : x >= y
      <3> TAKE y \in B
      <3>1. u - x <= u - y
        BY <2>2, <2>3
      <3> QED
        BY <1>6, <3>1
    <2> QED
      BY <2>4
  <1> DEFINE top == CHOOSE x \in B : \A y \in B : x >= y
  <1>8. top \in B /\ \A y \in B : top >= y
    BY <1>7, Zenon
  <1>9. LastBlock(work) = top
    BY Zenon DEF LastBlock, Max, B
  <1> HIDE DEF top
  <1>10. \A i \in 1 .. n : work[i].block \in B
    BY <1>1 DEF B
  <1>11. \A i \in 1 .. n : work[i].block <= top
    <2> TAKE i \in 1 .. n
    <2>1. work[i].block \in Nat /\ top \in Nat /\ top >= work[i].block
      BY <1>1, <1>6, <1>8, <1>10
    <2> QED
      BY <2>1
  <1> QED
    BY <1>6, <1>8, <1>9, <1>11

(* What a plan for the given rows must be.                                 *)
Planned(p, rows, merge) ==
  /\ p \in Seq(Seq(Item))
  /\ \A g \in 1 .. Len(p) : Packable(p[g], p[g][1].block)
  /\ ApartBy(RowsByRequest, p)
  /\ RowsPacked(p) = rows
  /\ merge => \A g \in 1 .. Len(p) :
                g + 1 \in 1 .. Len(p) /\ p[g][1].block = p[g + 1][1].block => NoRoom(p[g], p[g + 1])

LEMMA PlanUnmerged ==
  ASSUME NEW work \in Seq(Item), Apart(work)
  PROVE  Planned(plan_native_chunks(work, FALSE), RowsInItems(work), FALSE)
  <1> DEFINE p == plan_native_chunks(work, FALSE)
             n == Len(work)
             R == RowsByRequest
  <1>1. p = [i \in 1 .. n |-> <<work[i]>>] /\ n \in Nat
    BY DEF plan_native_chunks
  <1>2. \A i \in 1 .. n : work[i] \in Item
    OBVIOUS
  <1> HIDE DEF p, n
  <1>3. ASSUME NEW i \in 1 .. n
        PROVE  /\ p[i] = <<work[i]>> /\ p[i] \in Seq(Item) /\ p[i] # <<>> /\ Len(p[i]) = 1
               /\ p[i][1] = work[i] /\ R[p[i]] = ItemRows(work[i])
               /\ OneBlock(p[i], p[i][1].block)
    <2> DEFINE x == work[i]
    <2>1. p[i] = <<x>> /\ x \in Item
      BY <1>1, <1>2
    <2> HIDE DEF x
    <2>2. /\ <<x>> \in Seq(Item) /\ <<x>> # <<>> /\ Len(<<x>>) = 1 /\ <<x>>[1] = x
          /\ RowsInItems(<<x>>) = ItemRows(x) /\ OneBlock(<<x>>, x.block)
      BY <2>1, OneItem
    <2>3. R[<<x>>] = RowsInItems(<<x>>)
      BY <2>2, Zenon DEF RowsByRequest
    <2> HIDE DEF R
    <2>4. p[i][1] = x
      BY <2>1, <2>2, Zenon
    <2> QED
      BY <2>1, <2>2, <2>3, <2>4, Zenon DEF x
  <1>4. p \in Seq(Seq(Item)) /\ Len(p) = n
    <2>1. p \in [1 .. n -> Seq(Item)]
      BY <1>1, <1>3
    <2> QED
      BY <1>1, <2>1
  <1>5. \A g \in 1 .. n : Packable(p[g], p[g][1].block)
    BY <1>3, Zenon DEF Packable
  <1> HIDE DEF R
  <1>6. ApartBy(R, p)
    <2> SUFFICES ASSUME NEW i \in 1 .. n, NEW j \in 1 .. n, i # j
                 PROVE  R[p[i]] \cap R[p[j]] = {}
      BY <1>4, Zenon DEF ApartBy
    <2>1. ItemRows(work[i]) \cap ItemRows(work[j]) = {}
      BY Zenon DEF Apart, n
    <2>2. R[p[i]] = ItemRows(work[i]) /\ R[p[j]] = ItemRows(work[j])
      BY <1>3
    <2> QED
      BY <2>1, <2>2, Zenon
  <1>7. CoverBy(R, p) = AllRows(work)
    <2>1. \A i \in 1 .. n : R[p[i]] = ItemRows(work[i])
      BY <1>3
    <2>2. CoverBy(R, p) = UNION {R[p[i]] : i \in 1 .. n}
      BY <1>4, Zenon DEF CoverBy
    <2>3. AllRows(work) = UNION {ItemRows(work[i]) : i \in 1 .. n}
      BY Zenon DEF AllRows, n
    <2> QED
      BY <2>1, <2>2, <2>3
  <1>8. RowsPacked(p) = RowsInItems(work)
    BY <1>7, ItemViews DEF RowsPacked, R
  <1> QED
    BY <1>4, <1>5, <1>6, <1>8, Zenon DEF Planned, R, p

LEMMA PlanMerged ==
  ASSUME NEW work \in Seq(Item), Apart(work)
  PROVE  Planned(plan_native_chunks(work, TRUE), RowsInItems(work), TRUE)
  <1> DEFINE p == plan_native_chunks(work, TRUE)
             n == LastBlock(work) + 1
             seqs == [i \in 1 .. n |-> PackBlock(work, i - 1)]
             R == RowsByRequest
             at(i, j) == Offset(seqs, i) + j
  <1>1. p = FlattenSeq(seqs)
    BY Zenon DEF plan_native_chunks
  <1>2. n \in Nat /\ \A i \in 1 .. Len(work) : work[i].block \in Nat /\ work[i].block + 1 \in 1 .. n
    BY LastBlockIs, ItemFields
  <1> HIDE DEF p, n
  <1>3. ASSUME NEW i \in 1 .. n
        PROVE  /\ Served(seqs[i], i - 1)
               /\ CoverBy(R, seqs[i]) = RowsAt(work, i - 1, Len(work))
    <2> DEFINE b == i - 1
    <2>1. seqs[i] = PackBlock(work, b)
      OBVIOUS
    <2> HIDE DEF b, seqs
    <2>2. /\ Served(PackBlock(work, b), b)
          /\ RowsPacked(PackBlock(work, b)) = RowsAt(work, b, Len(work))
      BY PackBlockIs
    <2> QED
      BY <2>1, <2>2, Zenon DEF b, RowsPacked
  <1>4. seqs \in Seq(Seq(Seq(Item))) /\ Len(seqs) = n
    <2>1. seqs = [i \in 1 .. n |-> seqs[i]]
      OBVIOUS
    <2> HIDE DEF seqs
    <2>2. \A i \in 1 .. n : seqs[i] \in Seq(Seq(Item))
      BY <1>3, Zenon DEF Served
    <2>3. seqs \in [1 .. n -> Seq(Seq(Item))]
      BY <2>1, <2>2
    <2> QED
      BY <1>2, <2>3
  <1> HIDE DEF seqs, R
  <1>5. ASSUME NEW i \in 1 .. n, NEW j \in 1 .. n, i # j
        PROVE  CoverBy(R, seqs[i]) \cap CoverBy(R, seqs[j]) = {}
    <2>1. i - 1 # j - 1
      BY <1>2, <1>5
    <2> DEFINE b == i - 1
               c == j - 1
    <2> HIDE DEF b, c
    <2>2. RowsAt(work, b, Len(work)) \cap RowsAt(work, c, Len(work)) = {}
      <3> SUFFICES ASSUME NEW r, r \in RowsAt(work, b, Len(work)), r \in RowsAt(work, c, Len(work))
                   PROVE  FALSE
        OBVIOUS
      <3>1. PICK k \in 1 .. Len(work) : work[k].block = b /\ r \in ItemRows(work[k])
        BY DEF RowsAt
      <3>2. PICK l \in 1 .. Len(work) : work[l].block = c /\ r \in ItemRows(work[l])
        BY DEF RowsAt
      <3>3. k # l
        BY <2>1, <3>1, <3>2 DEF b, c
      <3> QED
        BY <3>1, <3>2, <3>3 DEF Apart
    <2> QED
      BY <1>3, <2>2 DEF b, c
  <1>6. ApartBy(R, p)
    <2>1. \A i \in 1 .. Len(seqs) : ApartBy(R, seqs[i])
      BY <1>3, <1>4 DEF Served, R
    <2>2. \A i, j \in 1 .. Len(seqs) :
            i # j => CoverBy(R, seqs[i]) \cap CoverBy(R, seqs[j]) = {}
      BY <1>4, <1>5, Zenon
    <2> QED
      BY <1>1, <1>4, <2>1, <2>2, FlatApart
  <1>7. RowsPacked(p) = RowsInItems(work)
    <2>1. CoverBy(R, p) = UNION {CoverBy(R, seqs[i]) : i \in 1 .. n}
      BY <1>1, <1>4, FlatCover
    <2>2. ASSUME NEW r, r \in CoverBy(R, p) PROVE r \in AllRows(work)
      <3>1. PICK i \in 1 .. n : r \in CoverBy(R, seqs[i])
        BY <2>1, <2>2
      <3>2. r \in RowsAt(work, i - 1, Len(work))
        BY <1>3, <3>1
      <3> QED
        BY <3>2 DEF RowsAt, AllRows
    <2>3. ASSUME NEW r, r \in AllRows(work) PROVE r \in CoverBy(R, p)
      <3>1. PICK k \in 1 .. Len(work) : r \in ItemRows(work[k])
        BY <2>3 DEF AllRows
      <3> DEFINE b == work[k].block
                 i == b + 1
      <3>2. i \in 1 .. n /\ i - 1 = b
        BY <1>2
      <3>3. r \in RowsAt(work, b, Len(work))
        BY <3>1 DEF RowsAt
      <3> HIDE DEF i, b
      <3>4. r \in CoverBy(R, seqs[i])
        BY <1>3, <3>2, <3>3
      <3> QED
        BY <2>1, <3>2, <3>4
    <2>4. CoverBy(R, p) = AllRows(work)
      BY <2>2, <2>3, Zenon
    <2> QED
      BY <2>4, ItemViews DEF RowsPacked, R
  <1>8. p \in Seq(Seq(Item))
    <2> DEFINE S == Seq(Item)
    <2>1. seqs \in Seq(Seq(S))
      BY <1>4
    <2> HIDE DEF S
    <2>2. p \in Seq(S)
      BY <1>1, <2>1, FlattenElements
    <2> QED
      BY <2>2 DEF S
  <1>9. \A g \in 1 .. Len(p) : \E i \in 1 .. n : \E j \in 1 .. Len(seqs[i]) :
          g = at(i, j) /\ p[g] = seqs[i][j]
    <2> DEFINE S == Seq(Item)
    <2>1. seqs \in Seq(Seq(S))
      BY <1>4
    <2> HIDE DEF S
    <2>2. \A g \in 1 .. Len(FlattenSeq(seqs)) :
            \E i \in 1 .. Len(seqs) : \E j \in 1 .. Len(seqs[i]) :
              g = Offset(seqs, i) + j /\ FlattenSeq(seqs)[g] = seqs[i][j]
      BY <2>1, FlatIndex
    <2> QED
      BY <1>1, <1>4, <2>2, Zenon
  <1>10. ASSUME NEW i \in 1 .. n, NEW j \in 1 .. Len(seqs[i])
         PROVE  Packable(seqs[i][j], i - 1) /\ seqs[i][j][1].block = i - 1
    <2>1. Packable(seqs[i][j], i - 1)
      BY <1>3, Zenon DEF Served
    <2> DEFINE q == seqs[i][j]
    <2>2. q \in Seq(Item) /\ q # <<>> /\ OneBlock(q, i - 1)
      BY <2>1 DEF Packable
    <2> HIDE DEF q
    <2>3. 1 \in 1 .. Len(q)
      BY <2>2
    <2>4. q[1].block = i - 1
      BY <2>2, <2>3, Zenon DEF OneBlock
    <2> QED
      BY <2>1, <2>4 DEF q
  <1>11. \A g \in 1 .. Len(p) : Packable(p[g], p[g][1].block)
    <2> TAKE g \in 1 .. Len(p)
    <2>1. PICK i \in 1 .. n : \E j \in 1 .. Len(seqs[i]) : p[g] = seqs[i][j]
      BY <1>9, Zenon
    <2>2. PICK j \in 1 .. Len(seqs[i]) : p[g] = seqs[i][j]
      BY <2>1, Zenon
    <2>3. Packable(p[g], i - 1) /\ p[g][1].block = i - 1
      BY <1>10, <2>2
    <2> QED
      BY <2>3
  <1>12. ASSUME NEW g \in 1 .. Len(p), g + 1 \in 1 .. Len(p), p[g][1].block = p[g + 1][1].block
         PROVE  NoRoom(p[g], p[g + 1])
    <2>1. PICK i \in 1 .. n : \E j \in 1 .. Len(seqs[i]) : g = at(i, j) /\ p[g] = seqs[i][j]
      BY <1>9, Zenon
    <2>2. PICK j \in 1 .. Len(seqs[i]) : g = at(i, j) /\ p[g] = seqs[i][j]
      BY <2>1, Zenon
    <2>3. PICK k \in 1 .. n : \E l \in 1 .. Len(seqs[k]) : g + 1 = at(k, l) /\ p[g + 1] = seqs[k][l]
      BY <1>9, <1>12, Zenon
    <2>4. PICK l \in 1 .. Len(seqs[k]) : g + 1 = at(k, l) /\ p[g + 1] = seqs[k][l]
      BY <2>3, Zenon
    <2>5. i - 1 = k - 1
      BY <1>10, <1>12, <2>2, <2>4
    <2>6. i = k
      BY <1>2, <2>5
    <2>7. Offset(seqs, i) \in Nat
      <3> DEFINE S == Seq(Item)
      <3>1. seqs \in Seq(Seq(S))
        BY <1>4
      <3> HIDE DEF S
      <3> QED
        BY <1>4, <3>1, FlatPlace
    <2>8. j + 1 = l /\ j + 1 \in 1 .. Len(seqs[i])
      <3>1. Len(seqs[i]) \in Nat
        BY <1>3 DEF Served
      <3>2. g = Offset(seqs, i) + j /\ g + 1 = Offset(seqs, i) + l /\ l \in 1 .. Len(seqs[i])
        BY <2>2, <2>4, <2>6
      <3> QED
        BY <2>7, <3>1, <3>2
    <2>9. NoRoom(seqs[i][j], seqs[i][j + 1])
      BY <1>3, <2>8, Zenon DEF Served
    <2> QED
      BY <2>2, <2>4, <2>6, <2>8, <2>9
  <1> QED
    BY <1>6, <1>7, <1>8, <1>11, <1>12, Zenon DEF Planned, R, p

LEMMA PlanIs ==
  ASSUME NEW work \in Seq(Item), Apart(work), NEW merge \in BOOLEAN
  PROVE  Planned(plan_native_chunks(work, merge), RowsInItems(work), merge)
  <1>1. merge = TRUE \/ merge = FALSE
    OBVIOUS
  <1> QED
    BY <1>1, PlanUnmerged, PlanMerged

-----------------------------------------------------------------------------
(* The partition                                                           *)

Points == {"start", "await", "ladder", "done"}

TypeInv ==
  /\ GroupType /\ batch_size \in BatchSizes /\ misses \in Nat /\ merged \in BOOLEAN
  /\ phase \in {"plan", "run"}
  /\ pc \in [DOMAIN plan -> Points]

(* Nothing is planned, or every batched row is in exactly one request.     *)
PlanInv ==
  /\ phase = "plan" => plan = <<>>
  /\ phase = "run" => Planned(plan, BatchedRows, merged)

SentFits == \A g \in DOMAIN plan : pc[g] = "await" => Slots(plan[g]) <= MaxSlots

(* A row has a value once it was read alone or its request is done.        *)
Has(r) ==
  phase = "run" /\ (r \in Ineligible \/ \E g \in DOMAIN plan : pc[g] = "done" /\ r \in RowsIn(g))

OutInv == out = [r \in Row |-> IF Has(r) THEN <<r>> ELSE <<>>]

IInv == TypeInv /\ PlanInv /\ SentFits /\ OutInv

LEMMA PlanFacts ==
  ASSUME TypeInv, PlanInv, NEW g \in DOMAIN plan
  PROVE  /\ phase = "run" /\ plan \in Seq(Seq(Item)) /\ DOMAIN plan = 1 .. Len(plan)
         /\ plan[g] \in Seq(Item) /\ plan[g] # <<>> /\ pc[g] \in Points
         /\ RowsIn(g) = RowsInItems(plan[g]) /\ RowsByRequest[plan[g]] = RowsIn(g)
         /\ RowsIn(g) \subseteq BatchedRows
         /\ \A h \in DOMAIN plan : h # g => RowsIn(g) \cap RowsIn(h) = {}
  <1>1. phase = "run"
    <2>1. phase = "plan" => plan = <<>>
      BY DEF PlanInv
    <2>2. plan # <<>>
      OBVIOUS
    <2> QED
      BY <2>1, <2>2 DEF TypeInv
  <1>2. Planned(plan, BatchedRows, merged)
    BY <1>1 DEF PlanInv
  <1>3. plan \in Seq(Seq(Item)) /\ ApartBy(RowsByRequest, plan) /\ RowsPacked(plan) = BatchedRows
    BY <1>2 DEF Planned
  <1>4. DOMAIN plan = 1 .. Len(plan)
    BY <1>3
  <1>5. \A h \in DOMAIN plan : plan[h] \in Seq(Item) /\ RowsIn(h) = RowsInItems(plan[h])
    <2> TAKE h \in DOMAIN plan
    <2>1. plan[h] \in Seq(Item)
      BY <1>3
    <2> QED
      BY <2>1 DEF RowsIn, RowsInItems
  <1>6. \A h \in DOMAIN plan : RowsByRequest[plan[h]] = RowsIn(h)
    BY <1>5 DEF RowsByRequest
  <1>7. plan[g] # <<>>
    BY <1>2, <1>4, Zenon DEF Planned, Packable
  <1>8. pc[g] \in Points
    BY DEF TypeInv
  <1>9. \A h \in DOMAIN plan : h # g => RowsIn(g) \cap RowsIn(h) = {}
    BY <1>3, <1>4, <1>6 DEF ApartBy
  <1>10. RowsIn(g) \subseteq BatchedRows
    <2>1. RowsByRequest[plan[g]] \subseteq RowsPacked(plan)
      BY <1>4, Zenon DEF RowsPacked, CoverBy
    <2> QED
      BY <1>3, <1>6, <2>1
  <1> QED
    BY <1>1, <1>3, <1>4, <1>5, <1>6, <1>7, <1>8, <1>9, <1>10, Zenon

(* A row is read alone or in a batch, never both.                          *)
LEMMA EligibleOrNot ==
  ASSUME GroupType
  PROVE  Ineligible \cap BatchedRows = {}
  <1> SUFFICES ASSUME NEW r, r \in Ineligible, r \in BatchedRows PROVE FALSE
    OBVIOUS
  <1>1. PICK k \in GroupKeys \ Batched : r \in ToSet(RowsOf(k))
    BY Zenon DEF Ineligible
  <1>2. PICK l \in Batched : r \in ToSet(RowsOf(l))
    BY Zenon DEF BatchedRows
  <1>3. l \in GroupKeys /\ k \in GroupKeys
    BY <1>2 DEF Batched
  <1>4. r[1] = k[1] /\ r[2] = k[2]
    BY <1>1, <1>3, KeyOfRow
  <1>5. r[1] = l[1] /\ r[2] = l[2]
    BY <1>2, <1>3, KeyOfRow
  <1>6. k = <<k[1], k[2]>> /\ l = <<l[1], l[2]>>
    BY <1>3, KeyIs
  <1>7. k = l
    BY <1>4, <1>5, <1>6, Zenon
  <1> QED
    BY <1>1, <1>2, <1>7

(* The rows of the partition are the ones that its groups count.           *)
LEMMA RowsOfPartition ==
  ASSUME GroupType, NEW r \in Row
  PROVE  r \in Ineligible \cup BatchedRows <=> r[3] <= n_rows[<<r[1], r[2]>>]
  <1>1. PICK k \in GroupKeys, i \in 1 .. MaxGroup : r = <<k[1], k[2], i>>
    BY DEF Row
  <1>2. r[1] = k[1] /\ r[2] = k[2] /\ r[3] = i /\ k = <<k[1], k[2]>>
    BY <1>1, KeyIs
  <1>3. <<r[1], r[2]>> = k
    BY <1>2, Zenon
  <1>4. n_rows[k] \in Nat /\ i \in Nat \ {0}
    BY NativeAssumption DEF GroupType
  <1>5. ASSUME r \in Ineligible \cup BatchedRows PROVE i <= n_rows[k]
    <2>1. PICK l \in GroupKeys : r \in ToSet(RowsOf(l))
      BY <1>5 DEF Ineligible, BatchedRows, Batched
    <2>2. r[1] = l[1] /\ r[2] = l[2] /\ r[3] \in 1 .. n_rows[l] /\ l = <<l[1], l[2]>>
      BY <2>1, KeyOfRow, KeyIs
    <2>3. l = k
      BY <1>2, <2>2, Zenon
    <2> QED
      BY <1>2, <1>4, <2>2, <2>3
  <1>6. ASSUME i <= n_rows[k] PROVE r \in Ineligible \cup BatchedRows
    <2>1. i \in 1 .. n_rows[k]
      BY <1>4, <1>6
    <2>2. r \in ToSet(RowsOf(k))
      BY <1>1, <2>1 DEF ToSet, RowsOf
    <2>3. k \in Batched \/ k \in GroupKeys \ Batched
      OBVIOUS
    <2> QED
      BY <2>2, <2>3, Zenon DEF Ineligible, BatchedRows
  <1> QED
    BY <1>2, <1>3, <1>5, <1>6, Zenon

LEMMA InitInv == Init => IInv
  <1> SUFFICES ASSUME Init PROVE IInv
    OBVIOUS
  <1>1. TypeInv
    <2>1. pc \in [DOMAIN plan -> Points]
      BY DEF Init
    <2>2. misses \in Nat /\ GroupType /\ batch_size \in BatchSizes /\ merged \in BOOLEAN /\ phase \in {"plan", "run"}
      BY NativeAssumption DEF Init, GroupType
    <2> QED
      BY <2>1, <2>2 DEF TypeInv
  <1>2. PlanInv
    BY DEF Init, PlanInv
  <1>3. SentFits
    BY DEF Init, SentFits
  <1>4. OutInv
    BY DEF Init, OutInv, Has
  <1> QED
    BY <1>1, <1>2, <1>3, <1>4 DEF IInv

(* What stays when only the requests move on.                              *)
LEMMA SameRows ==
  ASSUME n_rows' = n_rows
  PROVE  Ineligible' = Ineligible /\ BatchedRows' = BatchedRows /\ (GroupType => GroupType')
  BY DEF Ineligible, BatchedRows, Batched, RowsOf, GroupType

LEMMA PlanStep == IInv /\ Plan => IInv'
  <1> SUFFICES ASSUME IInv, Plan PROVE IInv'
    OBVIOUS
  <1> DEFINE worth == misses < MissLimit
  <1>1. TypeInv /\ phase = "plan" /\ OutInv /\ GroupType /\ batch_size \in BatchSizes
    BY DEF IInv, TypeInv, Plan
  <1>2. /\ UNCHANGED <<n_rows, batch_size, misses>> /\ phase' = "run" /\ merged' = worth
        /\ pc' = [g \in DOMAIN plan' |-> "start"]
    BY DEF Plan, storage_values_worth_trying
  <1>3. PICK order \in SetToSeqs(Batched) : plan' = plan_native_chunks(WorkOf(order), merged')
    BY Zenon DEF Plan, WorkOf
  <1>4. merged' \in BOOLEAN
    BY <1>2
  <1>5. Planned(plan', BatchedRows, merged')
    <2>1. /\ WorkOf(order) \in Seq(Item) /\ Apart(WorkOf(order))
          /\ RowsInItems(WorkOf(order)) = BatchedRows
      BY <1>1, WorkIs
    <2> DEFINE w == WorkOf(order)
               m == merged'
    <2> HIDE DEF w, m
    <2>2. Planned(plan_native_chunks(w, m), RowsInItems(w), m)
      BY <1>4, <2>1, PlanIs DEF w, m
    <2> QED
      BY <1>3, <2>1, <2>2, Zenon DEF w, m
  <1>6. Ineligible' = Ineligible /\ BatchedRows' = BatchedRows /\ GroupType'
    BY <1>1, <1>2, SameRows
  <1>7. PlanInv'
    BY <1>2, <1>5, <1>6 DEF PlanInv
  <1>8. TypeInv'
    <2>1. pc' \in [DOMAIN plan' -> Points]
      BY <1>2 DEF Points
    <2> QED
      BY <1>1, <1>2, <1>4, <1>6, <2>1 DEF TypeInv
  <1>9. SentFits'
    BY <1>2 DEF SentFits
  <1>10. OutInv'
    <2>1. out = [r \in Row |-> <<>>]
      BY <1>1 DEF OutInv, Has
    <2>2. out' = [r \in Row |-> IF r \in Ineligible THEN Append(out[r], r) ELSE out[r]]
      BY DEF Plan, Produced
    <2>3. out' = [r \in Row |-> IF r \in Ineligible THEN <<r>> ELSE <<>>]
      BY <2>1, <2>2
    <2>4. \A r : Has(r)' <=> r \in Ineligible
      BY <1>2, <1>6 DEF Has
    <2> QED
      BY <2>3, <2>4 DEF OutInv
  <1> QED
    BY <1>7, <1>8, <1>9, <1>10 DEF IInv

(* A request moves on without an answer.                                   *)
LEMMA Move ==
  ASSUME IInv, NEW g \in DOMAIN plan, NEW point \in Points \ {"done"}, pc[g] # "done",
         pc' = [pc EXCEPT ![g] = point],
         point = "await" => Slots(plan[g]) <= MaxSlots,
         UNCHANGED <<n_rows, batch_size, merged, plan, phase, out>>, misses' \in Nat
  PROVE  IInv'
  <1>1. TypeInv /\ PlanInv /\ SentFits /\ OutInv
    BY DEF IInv
  <1>2. pc \in [DOMAIN plan -> Points]
    BY <1>1 DEF TypeInv
  <1>3. Ineligible' = Ineligible /\ BatchedRows' = BatchedRows /\ GroupType'
    BY <1>1, SameRows DEF TypeInv
  <1>4. TypeInv'
    BY <1>1, <1>2, <1>3 DEF TypeInv
  <1>5. PlanInv'
    BY <1>1, <1>3 DEF PlanInv
  <1>6. SentFits'
    BY <1>1, <1>2 DEF SentFits
  <1>7. \A r : Has(r)' <=> Has(r)
    <2> TAKE r
    <2>1. \A h \in DOMAIN plan : RowsIn(h)' = RowsIn(h)
      BY DEF RowsIn
    <2>2. \A h \in DOMAIN plan : pc'[h] = "done" <=> pc[h] = "done"
      BY <1>2
    <2> QED
      BY <1>3, <2>1, <2>2 DEF Has
  <1>8. OutInv'
    BY <1>1, <1>7 DEF OutInv
  <1> QED
    BY <1>4, <1>5, <1>6, <1>8 DEF IInv

(* The rows of a request get their values.                                 *)
LEMMA Deliver ==
  ASSUME IInv, NEW g \in DOMAIN plan, pc[g] # "done",
         pc' = [pc EXCEPT ![g] = "done"],
         out' = [r \in Row |-> IF r \in RowsIn(g) THEN Append(out[r], r) ELSE out[r]],
         UNCHANGED <<n_rows, batch_size, merged, plan, phase>>, misses' \in Nat
  PROVE  IInv'
  <1>1. TypeInv /\ PlanInv /\ SentFits /\ OutInv
    BY DEF IInv
  <1>2. pc \in [DOMAIN plan -> Points]
    BY <1>1 DEF TypeInv
  <1>3. Ineligible' = Ineligible /\ BatchedRows' = BatchedRows /\ GroupType'
    BY <1>1, SameRows DEF TypeInv
  <1>4. TypeInv'
    BY <1>1, <1>2, <1>3 DEF TypeInv, Points
  <1>5. PlanInv'
    BY <1>1, <1>3 DEF PlanInv
  <1>6. SentFits'
    BY <1>1, <1>2 DEF SentFits
  <1>7. /\ phase = "run" /\ RowsIn(g) \subseteq BatchedRows
        /\ \A h \in DOMAIN plan : h # g => RowsIn(g) \cap RowsIn(h) = {}
    BY <1>1, PlanFacts
  <1>8. \A h \in DOMAIN plan : RowsIn(h)' = RowsIn(h)
    BY DEF RowsIn
  <1>9. \A h \in DOMAIN plan : pc'[h] = "done" <=> pc[h] = "done" \/ h = g
    BY <1>2
  <1>10. \A r : Has(r)' <=> Has(r) \/ r \in RowsIn(g)
    BY <1>3, <1>7, <1>8, <1>9 DEF Has
  <1>11. \A r \in RowsIn(g) : ~Has(r)
    <2> TAKE r \in RowsIn(g)
    <2>1. r \notin Ineligible
      BY <1>1, <1>7, EligibleOrNot DEF TypeInv
    <2> QED
      BY <1>7, <2>1 DEF Has
  <1>12. out = [r \in Row |-> IF Has(r) THEN <<r>> ELSE <<>>]
    BY <1>1 DEF OutInv
  <1>13. \A r \in Row : out'[r] = IF Has(r)' THEN <<r>> ELSE <<>>
    <2> TAKE r \in Row
    <2>1. CASE r \in RowsIn(g)
      <3>1. out[r] = <<>>
        BY <1>11, <1>12, <2>1
      <3>2. out'[r] = <<r>>
        <4>1. out'[r] = Append(out[r], r)
          BY <2>1, Zenon
        <4>2. Append(<<>>, r) = <<r>>
          OBVIOUS
        <4> QED
          BY <3>1, <4>1, <4>2, Zenon
      <3>3. Has(r)'
        BY <1>10, <2>1
      <3> QED
        BY <3>2, <3>3, Zenon
    <2>2. CASE r \notin RowsIn(g)
      <3>1. out'[r] = out[r]
        BY <2>2
      <3>2. Has(r)' <=> Has(r)
        BY <1>10, <2>2
      <3>3. out[r] = IF Has(r) THEN <<r>> ELSE <<>>
        BY <1>12
      <3> QED
        BY <3>1, <3>2, <3>3, Zenon
    <2> QED
      BY <2>1, <2>2
  <1>14. OutInv'
    BY <1>13 DEF OutInv
  <1> QED
    BY <1>4, <1>5, <1>6, <1>14 DEF IInv

LEMMA StepInv ==
  ASSUME IInv, NEW g \in DOMAIN plan, Step(g)
  PROVE  IInv'
  <1>1. /\ misses \in Nat /\ misses + 1 \in Nat /\ 0 \in Nat
        /\ "ladder" \in Points \ {"done"} /\ "await" \in Points \ {"done"}
    BY DEF IInv, TypeInv, Points
  <1>2. CASE Skip(g)
    <2>1. /\ pc[g] = "start" /\ pc' = [pc EXCEPT ![g] = "ladder"]
          /\ UNCHANGED <<n_rows, batch_size, merged, plan, phase, out>> /\ misses' = misses
      BY <1>2 DEF Skip
    <2>2. misses' \in Nat /\ pc[g] # "done"
      BY <1>1, <2>1
    <2> QED
      BY <1>1, <2>1, <2>2, Move
  <1>3. CASE Send(g)
    <2>1. /\ pc[g] = "start" /\ pc' = [pc EXCEPT ![g] = "await"] /\ Slots(plan[g]) <= MaxSlots
          /\ UNCHANGED <<n_rows, batch_size, merged, plan, phase, out>> /\ misses' = misses
      BY <1>3 DEF Send
    <2>2. misses' \in Nat /\ pc[g] # "done"
      BY <1>1, <2>1
    <2> QED
      BY <1>1, <2>1, <2>2, Move
  <1>4. CASE Failed(g)
    <2>1. /\ pc[g] = "await" /\ pc' = [pc EXCEPT ![g] = "ladder"]
          /\ UNCHANGED <<n_rows, batch_size, merged, plan, phase, out>>
          /\ misses' \in {misses, misses + 1}
      BY <1>4 DEF Failed
    <2>2. misses' \in Nat /\ pc[g] # "done"
      BY <1>1, <2>1
    <2> QED
      BY <1>1, <2>1, <2>2, Move
  <1>5. CASE Replied(g)
    <2>1. /\ pc[g] = "await" /\ misses' = 0
          /\ UNCHANGED <<n_rows, batch_size, merged, plan, phase>>
      BY <1>5 DEF Replied
    <2>2. misses' \in Nat /\ pc[g] # "done"
      BY <1>1, <2>1
    <2> DEFINE items == plan[g]
               values(kind, c) == Decoded(items, Answered(Request(items), kind, c))
    <2>3. PICK kind \in Answers \ {"throttle", "error"}, c \in DOMAIN Request(items) :
            \/ pc' = [pc EXCEPT ![g] = "ladder"] /\ UNCHANGED out
            \/ /\ values(kind, c) # None /\ pc' = [pc EXCEPT ![g] = "done"]
               /\ out' = [r \in Row |-> IF r \in RowsIn(g) THEN Append(out[r], values(kind, c)[r]) ELSE out[r]]
      BY <1>5, Zenon DEF Replied, Produced
    <2>4. items \in Seq(Item) /\ RowsIn(g) = RowsInItems(items) /\ kind \in AnswerKinds \ {"throttle", "error"}
      BY PlanFacts, NativeAssumption DEF IInv
    <2>5. CASE pc' = [pc EXCEPT ![g] = "ladder"] /\ UNCHANGED out
      <3>1. UNCHANGED <<n_rows, batch_size, merged, plan, phase, out>>
        BY <2>1, <2>5
      <3> QED
        BY <1>1, <2>2, <2>5, <3>1, Move
    <2>6. CASE /\ values(kind, c) # None /\ pc' = [pc EXCEPT ![g] = "done"]
               /\ out' = [r \in Row |-> IF r \in RowsIn(g) THEN Append(out[r], values(kind, c)[r]) ELSE out[r]]
      <3> DEFINE v == values(kind, c)
      <3>1. \A r \in RowsIn(g) : v[r] = r
        BY <2>4, <2>6, DecodedIsOwn
      <3> HIDE DEF values, v
      <3>2. out' = [r \in Row |-> IF r \in RowsIn(g) THEN Append(out[r], v[r]) ELSE out[r]]
        BY <2>6 DEF v
      <3>3. out' = [r \in Row |-> IF r \in RowsIn(g) THEN Append(out[r], r) ELSE out[r]]
        BY <3>1, <3>2
      <3> QED
        BY <2>1, <2>2, <2>6, <3>3, Deliver
    <2> QED
      BY <2>3, <2>5, <2>6
  <1>6. CASE Ladder(g)
    <2>1. /\ pc[g] = "ladder" /\ pc' = [pc EXCEPT ![g] = "done"] /\ misses' = misses
          /\ UNCHANGED <<n_rows, batch_size, merged, plan, phase>>
          /\ out' = [r \in Row |-> IF r \in RowsIn(g) THEN Append(out[r], r) ELSE out[r]]
      BY <1>6 DEF Ladder, Produced
    <2>2. misses' \in Nat /\ pc[g] # "done"
      BY <1>1, <2>1
    <2> QED
      BY <2>1, <2>2, Deliver
  <1> QED
    BY <1>2, <1>3, <1>4, <1>5, <1>6 DEF Step

LEMMA NextInv == IInv /\ [Next]_vars => IInv'
  <1> SUFFICES ASSUME IInv, [Next]_vars PROVE IInv'
    OBVIOUS
  <1>1. CASE Plan
    BY <1>1, PlanStep
  <1>2. CASE \E g \in DOMAIN plan : Step(g)
    BY <1>2, StepInv
  <1>3. CASE UNCHANGED vars
    <2>1. UNCHANGED <<n_rows, batch_size, misses, merged, plan, phase, pc, out>>
      BY <1>3 DEF vars
    <2>2. Ineligible' = Ineligible /\ BatchedRows' = BatchedRows /\ (GroupType => GroupType')
      BY <2>1, SameRows
    <2>3. \A g \in DOMAIN plan : RowsIn(g)' = RowsIn(g)
      BY <2>1 DEF RowsIn
    <2>4. \A r : Has(r)' <=> Has(r)
      BY <2>1, <2>2, <2>3 DEF Has
    <2>5. TypeInv'
      BY <2>1, <2>2 DEF IInv, TypeInv
    <2>6. PlanInv' /\ SentFits'
      BY <2>1, <2>2 DEF IInv, PlanInv, SentFits
    <2>7. OutInv'
      BY <2>1, <2>4 DEF IInv, OutInv
    <2> QED
      BY <2>5, <2>6, <2>7 DEF IInv
  <1> QED
    BY <1>1, <1>2, <1>3 DEF Next, Stop

LEMMA Invariant == Spec => []IInv
  BY InitInv, NextInv, PTL DEF Spec

-----------------------------------------------------------------------------
(***************************************************************************)
(* Whatever the node answers, in whatever order the tasks end and however  *)
(* rows were grouped, sliced and packed, native_storage_batch and its      *)
(* ladder leave each row of the partition with exactly one value, its own. *)
(***************************************************************************)
THEOREM RowsGetTheirOwnValues == Spec => []EveryRowItsOwnValue
  <1>1. IInv => EveryRowItsOwnValue
    <2> SUFFICES ASSUME IInv, Collected, NEW r \in Row
                 PROVE  out[r] = IF r[3] <= n_rows[<<r[1], r[2]>>] THEN <<r>> ELSE <<>>
      BY DEF EveryRowItsOwnValue
    <2>1. TypeInv /\ PlanInv /\ OutInv /\ GroupType
      BY DEF IInv, TypeInv
    <2>2. phase = "run" /\ \A g \in DOMAIN plan : pc[g] = "done"
      BY DEF Collected
    <2>3. Planned(plan, BatchedRows, merged)
      BY <2>1, <2>2 DEF PlanInv
    <2>4. plan \in Seq(Seq(Item)) /\ RowsPacked(plan) = BatchedRows
      BY <2>3 DEF Planned
    <2>5. DOMAIN plan = 1 .. Len(plan)
      BY <2>4
    <2>6. \A g \in DOMAIN plan : RowsByRequest[plan[g]] = RowsIn(g)
      BY <2>1, PlanFacts
    <2>7. r \in BatchedRows <=> \E g \in DOMAIN plan : r \in RowsIn(g)
      <3>1. r \in RowsPacked(plan) <=> \E g \in DOMAIN plan : r \in RowsByRequest[plan[g]]
        BY <2>5, Zenon DEF RowsPacked, CoverBy
      <3> QED
        BY <2>4, <2>6, <3>1
    <2>8. Has(r) <=> r \in Ineligible \cup BatchedRows
      BY <2>2, <2>7 DEF Has
    <2>9. Has(r) <=> r[3] <= n_rows[<<r[1], r[2]>>]
      BY <2>1, <2>8, RowsOfPartition, Zenon
    <2>10. out[r] = IF Has(r) THEN <<r>> ELSE <<>>
      BY <2>1 DEF OutInv
    <2> QED
      BY <2>9, <2>10, Zenon
  <1> QED
    BY <1>1, Invariant, PTL

(***************************************************************************)
(* plan_native_chunks, for any work, gives requests of one block that are  *)
(* within the node's cap or a single item, wastes no room, and none that   *)
(* is over the cap is ever sent.                                           *)
(***************************************************************************)
THEOREM RequestsAlwaysFit == Spec => []RequestsFitTheNode
  <1>1. IInv => RequestsFitTheNode
    <2> SUFFICES ASSUME IInv PROVE RequestsAreServable /\ RequestsAreFull
      BY DEF RequestsFitTheNode
    <2>1. TypeInv /\ PlanInv /\ SentFits
      BY DEF IInv
    <2>2. ASSUME NEW g \in DOMAIN plan
          PROVE  /\ Planned(plan, BatchedRows, merged) /\ DOMAIN plan = 1 .. Len(plan)
                 /\ Packable(plan[g], plan[g][1].block)
      <3>1. phase = "run" /\ DOMAIN plan = 1 .. Len(plan)
        BY <2>1, PlanFacts
      <3>2. Planned(plan, BatchedRows, merged)
        BY <2>1, <3>1 DEF PlanInv
      <3> QED
        BY <3>1, <3>2, Zenon DEF Planned
    <2>3. ASSUME NEW g \in DOMAIN plan
          PROVE  /\ pc[g] = "await" => Slots(plan[g]) <= MaxSlots
                 /\ Cardinality({plan[g][i].block : i \in DOMAIN plan[g]}) = 1
                 /\ Slots(plan[g]) <= MaxSlots \/ Len(plan[g]) = 1
      <3> DEFINE q == plan[g]
                 b == q[1].block
                 B == {q[i].block : i \in DOMAIN q}
      <3>1. /\ q \in Seq(Item) /\ q # <<>> /\ OneBlock(q, b)
            /\ Slots(q) <= MaxSlots \/ Len(q) = 1
        BY <2>2 DEF Packable
      <3> HIDE DEF q
      <3>2. DOMAIN q = 1 .. Len(q) /\ 1 \in DOMAIN q
        BY <3>1
      <3>3. \A i \in DOMAIN q : q[i].block = b
        BY <3>1, <3>2, Zenon DEF OneBlock
      <3>4. B = {b}
        BY <3>2, <3>3
      <3>5. Cardinality(B) = 1
        BY <3>4, FS_Singleton
      <3> QED
        BY <2>1, <3>1, <3>5, Zenon DEF SentFits, q
    <2>4. RequestsAreServable
      BY <2>3, Zenon DEF RequestsAreServable
    <2>5. ASSUME merged, NEW g \in DOMAIN plan, g + 1 \in DOMAIN plan,
                 plan[g][1].block = plan[g + 1][1].block
          PROVE  Slots(plan[g]) + Len(plan[g + 1][1].rows) > MaxSlots
      <3>1. Planned(plan, BatchedRows, merged) /\ DOMAIN plan = 1 .. Len(plan)
        BY <2>2
      <3>2. NoRoom(plan[g], plan[g + 1])
        BY <2>5, <3>1, Zenon DEF Planned
      <3> QED
        BY <3>2 DEF NoRoom
    <2>6. RequestsAreFull
      BY <2>5, Zenon DEF RequestsAreFull
    <2> QED
      BY <2>4, <2>6
  <1> QED
    BY <1>1, Invariant, PTL
=============================================================================
