--------------------------- MODULE NativeStorage ---------------------------
(***************************************************************************)
(* state_override_collect_by_block for a storage dataset: the rows of a    *)
(* partition are grouped by (block, contract), cut into work items, packed *)
(* into eth_getStorageValues requests, and each request is one task.  The  *)
(* tasks share Source::storage_values_misses, the count of consecutive     *)
(* requests that did not work.                                             *)
(*                                                                         *)
(* A row is <<block, target, i>>; the value read for it is the row itself  *)
(* when it is the right one.  A row whose request is not answered in full  *)
(* goes down the extractor ladder (ExtractorLadder), here one step that    *)
(* reads it right.                                                         *)
(***************************************************************************)
EXTENDS Integers, Sequences, SequencesExt, FiniteSets, FiniteSetsExt

CONSTANTS
  GroupKeys,   \* the (block, target) pairs rows may have; blocks are numbers
  MaxGroup,    \* bound: eligible rows of one group
  BatchSizes,  \* values of --state-override-batch-size
  MinGroup,    \* MIN_BATCH_GROUP, 2 in the code
  MaxSlots,    \* NATIVE_STORAGE_MAX_SLOTS, 1024 in the code
  MissLimit,   \* STORAGE_VALUES_MISS_LIMIT, 3 in the code
  EarlierMisses, \* values the counter may have when the partition starts
  Answers,     \* what a request may come back as
  NoTarget     \* a contract nobody asked about

AnswerKinds == {"honest", "short", "shifted", "long", "missing", "stranger", "throttle", "error"}

ASSUME NativeAssumption ==
  /\ IsFiniteSet(GroupKeys) /\ GroupKeys \subseteq Nat \X {k[2] : k \in GroupKeys}
  /\ MaxGroup \in Nat /\ BatchSizes \subseteq Nat \ {0}
  /\ MinGroup \in Nat \ {0} /\ MaxSlots \in Nat \ {0} /\ MissLimit \in Nat \ {0}
  /\ EarlierMisses \subseteq Nat
  /\ Answers \subseteq AnswerKinds
  /\ \A k \in GroupKeys : k[2] # NoTarget

VARIABLES
  n_rows,  \* eligible rows of each group
  batch_size,
  misses,  \* storage_values_misses
  merged,  \* whether the items were merged into requests
  plan,    \* the requests, each a sequence of work items
  phase,   \* "plan", then "run"
  pc,      \* by request
  out      \* by row: the values produced for it, in order

vars == <<n_rows, batch_size, misses, merged, plan, phase, pc, out>>

Row == {<<k[1], k[2], i>> : k \in GroupKeys, i \in 1 .. MaxGroup}
RowsOf(k) == [i \in 1 .. n_rows[k] |-> <<k[1], k[2], i>>]

-----------------------------------------------------------------------------
(* Planning                                                                *)

\* even_chunks: ceil(n / size) slices, the first n % chunks one row longer.
even_chunks(rows, size) ==
  LET n == Len(rows)
      n_chunks == IF n = 0 THEN 1 ELSE (n + size - 1) \div size
      base == n \div n_chunks
      remainder == n % n_chunks
      first(i) == (i - 1) * base + (IF i - 1 < remainder THEN i - 1 ELSE remainder)
      len(i) == base + IF i - 1 < remainder THEN 1 ELSE 0
  IN [i \in 1 .. n_chunks |-> SubSeq(rows, first(i) + 1, first(i) + len(i))]

\* One work item per slice of one group.
ItemsOf(k, size) ==
  LET slices == even_chunks(RowsOf(k), size)
  IN [i \in DOMAIN slices |-> [block |-> k[1], target |-> k[2], rows |-> slices[i]]]

Slots(items) == Len(FlattenSeq([i \in DOMAIN items |-> items[i].rows]))

\* Close the request that is being filled.
Flush(s) ==
  IF s.filling = <<>> THEN s
  ELSE [requests |-> Append(s.requests, s.filling), filling |-> <<>>]

\* Mutant: a request that would be exactly full is closed too early.
MutPackOffByOne(s, item) ==
  IF Len(item.rows) > MaxSlots
  THEN [s EXCEPT !.requests = Append(@, <<item>>)]
  ELSE LET room == Slots(s.filling) + Len(item.rows) < MaxSlots
           t == IF room THEN s ELSE Flush(s)
       IN [t EXCEPT !.filling = Append(@, item)]

\* One turn of plan_native_chunks' inner loop.
Pack(s, item) ==
  IF Len(item.rows) > MaxSlots
  THEN [s EXCEPT !.requests = Append(@, <<item>>)]
  ELSE LET room == Slots(s.filling) + Len(item.rows) <= MaxSlots
           t == IF room THEN s ELSE Flush(s)
       IN [t EXCEPT !.filling = Append(@, item)]

\* The items of block b in the order of the work, and the last request closed.
PackBlock(work, b) ==
  LET packed[i \in 0 .. Len(work)] ==
        IF i = 0 THEN [requests |-> <<>>, filling |-> <<>>]
        ELSE IF work[i].block = b THEN Pack(packed[i - 1], work[i])
        ELSE packed[i - 1]
  IN Flush(packed[Len(work)]).requests

LastBlock(work) == Max({0} \cup {work[i].block : i \in DOMAIN work})

\* The budget is per request and a request has one block.  The blocks are taken
\* in ascending order; one that has no item has no request.
plan_native_chunks(work, merge) ==
  IF ~merge THEN [i \in DOMAIN work |-> <<work[i]>>]
  ELSE FlattenSeq([n \in 1 .. LastBlock(work) + 1 |-> PackBlock(work, n - 1)])

storage_values_worth_trying == misses < MissLimit

\* groups.retain: a group too small is read row by row.
Batched == {k \in GroupKeys : n_rows[k] >= MinGroup}
Ineligible == UNION {ToSet(RowsOf(k)) : k \in GroupKeys \ Batched}

Produced(rows, value(_)) ==
  [r \in Row |-> IF r \in rows THEN Append(out[r], value(r)) ELSE out[r]]

\* The groups come out of a HashMap: in any order.
Plan ==
  /\ phase = "plan"
  /\ merged' = storage_values_worth_trying
  /\ \E order \in SetToSeqs(Batched) :
       LET work == FlattenSeq([i \in DOMAIN order |-> ItemsOf(order[i], batch_size)])
       IN plan' = plan_native_chunks(work, merged')
  /\ pc' = [g \in DOMAIN plan' |-> "start"]
  /\ out' = Produced(Ineligible, LAMBDA r : r)
  /\ phase' = "run"
  /\ UNCHANGED <<n_rows, batch_size, misses>>

-----------------------------------------------------------------------------
(* native_storage_batch                                                    *)

\* The slots of contract c in the first n items, one item after the other.
SlotsOf(items, c, n) ==
  FlattenSeq([i \in 1 .. n |-> IF items[i].target = c THEN items[i].rows ELSE <<>>])

\* The map that is sent: a contract split over several items gets all its slots.
Request(items) ==
  [c \in {items[i].target : i \in DOMAIN items} |-> SlotsOf(items, c, Len(items))]

\* A value that belongs to no row.
Junk == <<0, NoTarget, 0>>

\* What a node may answer to it.
Answered(request, kind, c) ==
  CASE kind = "honest" -> request
    [] kind = "short" -> [request EXCEPT ![c] = Tail(@)]
    [] kind = "shifted" -> [request EXCEPT ![c] = <<Junk>> \o @]
    [] kind = "long" -> [request EXCEPT ![c] = @ \o <<Junk>>]
    [] kind = "missing" -> [d \in DOMAIN request \ {c} |-> request[d]]
    [] kind = "stranger" ->
         [d \in DOMAIN request \cup {NoTarget} |->
            IF d = NoTarget THEN <<Junk>> ELSE request[d]]

\* Where the cursor of item i stands: the slots of its contract before it.
Start(items, i) == Len(SlotsOf(items, items[i].target, i - 1))

\* Some(values by row), or None as the empty function.
None == <<>>

TakenFrom(items, answer) ==
  [r \in UNION {ToSet(items[i].rows) : i \in DOMAIN items} |->
     LET i == CHOOSE j \in DOMAIN items : r \in ToSet(items[j].rows)
         at == CHOOSE n \in DOMAIN items[i].rows : items[i].rows[n] = r
     IN answer[items[i].target][Start(items, i) + at]]

\* Mutant: surplus values and contracts are tolerated.
MutTolerateSurplus(items, answer) ==
  IF \A i \in DOMAIN items :
       /\ items[i].target \in DOMAIN answer
       /\ Start(items, i) + Len(items[i].rows) <= Len(answer[items[i].target])
  THEN TakenFrom(items, answer)
  ELSE None

\* Every item's slice is there, nothing is left over, no contract is a stranger.
Decoded(items, answer) ==
  LET request == Request(items)
  IN IF /\ \A i \in DOMAIN items :
             /\ items[i].target \in DOMAIN answer
             /\ Start(items, i) + Len(items[i].rows) <= Len(answer[items[i].target])
        /\ Cardinality(DOMAIN answer) = Cardinality(DOMAIN request)
        /\ \A c \in DOMAIN answer :
             Len(answer[c]) = IF c \in DOMAIN request THEN Len(request[c]) ELSE 0
     THEN TakenFrom(items, answer)
     ELSE None

RowsIn(g) == UNION {ToSet(plan[g][i].rows) : i \in DOMAIN plan[g]}

\* Not worth a request, or more slots than any node would answer.
Skip(g) ==
  /\ pc[g] = "start"
  /\ ~storage_values_worth_trying \/ Slots(plan[g]) > MaxSlots
  /\ pc' = [pc EXCEPT ![g] = "ladder"]
  /\ UNCHANGED <<n_rows, batch_size, misses, merged, plan, phase, out>>

Send(g) ==
  /\ pc[g] = "start"
  /\ storage_values_worth_trying
  /\ Slots(plan[g]) <= MaxSlots
  /\ pc' = [pc EXCEPT ![g] = "await"]
  /\ UNCHANGED <<n_rows, batch_size, misses, merged, plan, phase, out>>

\* Err: a throttle is no evidence, anything else is a miss.
Failed(g) ==
  /\ pc[g] = "await"
  /\ \E kind \in {"throttle", "error"} \cap Answers :
       misses' = IF kind = "error" THEN misses + 1 ELSE misses
  /\ pc' = [pc EXCEPT ![g] = "ladder"]
  /\ UNCHANGED <<n_rows, batch_size, merged, plan, phase, out>>

\* Ok: the counter is reset, whether or not the answer fits the question.
Replied(g) ==
  /\ pc[g] = "await"
  /\ misses' = 0
  /\ \E kind \in Answers \ {"throttle", "error"}, c \in DOMAIN Request(plan[g]) :
       LET values == Decoded(plan[g], Answered(Request(plan[g]), kind, c))
       IN IF values = None
          THEN pc' = [pc EXCEPT ![g] = "ladder"] /\ UNCHANGED out
          ELSE /\ pc' = [pc EXCEPT ![g] = "done"]
               /\ out' = Produced(RowsIn(g), LAMBDA r : values[r])
  /\ UNCHANGED <<n_rows, batch_size, merged, plan, phase>>

\* One extractor ladder per item, concurrently; each answers all its rows.
Ladder(g) ==
  /\ pc[g] = "ladder"
  /\ out' = Produced(RowsIn(g), LAMBDA r : r)
  /\ pc' = [pc EXCEPT ![g] = "done"]
  /\ UNCHANGED <<n_rows, batch_size, misses, merged, plan, phase>>

-----------------------------------------------------------------------------
Init ==
  /\ n_rows \in [GroupKeys -> 0 .. MaxGroup]
  /\ batch_size \in BatchSizes
  /\ misses \in EarlierMisses
  /\ merged = FALSE
  /\ plan = <<>>
  /\ phase = "plan"
  /\ pc = <<>>
  /\ out = [r \in Row |-> <<>>]

Step(g) == Skip(g) \/ Send(g) \/ Failed(g) \/ Replied(g) \/ Ladder(g)

Collected == phase = "run" /\ \A g \in DOMAIN plan : pc[g] = "done"

Stop == Collected /\ UNCHANGED vars

Next == Plan \/ (\E g \in DOMAIN plan : Step(g)) \/ Stop

Spec == Init /\ [][Next]_vars

-----------------------------------------------------------------------------
(***************************************************************************)
(* When all tasks are done each row of the partition has exactly one       *)
(* value, its own: through small groups, uneven slices, contracts split    *)
(* over the items of one request, and answers that are short, shifted,     *)
(* padded, or name the wrong contracts.                                    *)
(***************************************************************************)
EveryRowItsOwnValue ==
  Collected =>
    \A r \in Row :
      out[r] = IF r[3] <= n_rows[<<r[1], r[2]>>] THEN <<r>> ELSE <<>>

(***************************************************************************)
(* No request ever exceeds the node's cap on slots over all its contracts, *)
(* and no request mixes blocks.                                            *)
(***************************************************************************)
RequestsAreServable ==
  \A g \in DOMAIN plan :
    /\ pc[g] = "await" => Slots(plan[g]) <= MaxSlots
    /\ Cardinality({plan[g][i].block : i \in DOMAIN plan[g]}) = 1
    /\ Slots(plan[g]) <= MaxSlots \/ Len(plan[g]) = 1

(***************************************************************************)
(* Merging is worth it: the first item of a request would not have fitted  *)
(* into the request of the same block before it.                           *)
(***************************************************************************)
RequestsAreFull ==
  merged =>
    \A g \in DOMAIN plan : g + 1 \in DOMAIN plan /\ plan[g][1].block = plan[g + 1][1].block =>
      Slots(plan[g]) + Len(plan[g + 1][1].rows) > MaxSlots

(***************************************************************************)
(* Packing wastes no request and sends none the node would refuse.         *)
(***************************************************************************)
RequestsFitTheNode == RequestsAreServable /\ RequestsAreFull
=============================================================================
