----------------------------- MODULE BlockInput -----------------------------
(***************************************************************************)
(* From the values of --blocks or --timestamps to partitions, while the    *)
(* chain grows: each reference to the head is a request of its own.        *)
(*                                                                         *)
(* A reference is <<"latest">>, <<"empty">>, <<"num", n>>, <<"minus", n>>  *)
(* or <<"plus", n>>; anything else is <<"bad">>.  A token has one or two   *)
(* references and perhaps a step or a number of values to keep.            *)
(***************************************************************************)
EXTENDS Partitions

CONSTANTS
  MaxHead,   \* bound: the chain's last block in this model
  TimeOf,    \* timestamps of the blocks 0 .. MaxHead
  Commands   \* the commands to try

\* What a reference and a token may be.
Ref == {<<"latest">>, <<"empty">>, <<"bad">>} \cup ({"num", "minus", "plus"} \X Nat)
Token == [kind : {"one", "range", "step", "keep"}, first : Ref, second : Ref, step : Nat, keep : Nat]

ASSUME ChainAssumption ==
  /\ MaxHead \in Nat
  /\ TimeOf \in [0 .. MaxHead -> Nat]
  /\ \A b \in 1 .. MaxHead : TimeOf[b - 1] <= TimeOf[b]

ASSUME CommandsAssumption ==
  \A c \in Commands :
    /\ c.unit \in {"block", "timestamp"}
    /\ c.expressions \in Seq(Seq(Token))
    /\ c.align \in BOOLEAN
    /\ c.chunk_size \in Nat \ {0}
    /\ c.n_chunks \in Nat
    /\ c.reorg_buffer \in Nat

VARIABLES
  head,     \* eth_blockNumber
  born,     \* the head when the command started
  cmd,      \* the command line
  phase,    \* the await parse_partitions is at
  at,       \* the token in hand
  lo, hi,   \* its resolved ends
  parsed,   \* BlockChunks of the tokens so far
  chunks,   \* the same after postprocess_block_chunks
  partitions

vars == <<head, born, cmd, phase, at, lo, hi, parsed, chunks, partitions>>

\* The tokens of all expressions: only a token alone in its expression stays a range.
Tokens(c) ==
  FlattenSeq([i \in DOMAIN c.expressions |->
    [j \in DOMAIN c.expressions[i] |->
      [tok |-> c.expressions[i][j], as_range |-> Len(c.expressions[i]) = 1]]])

token == Tokens(cmd)[at].tok

-----------------------------------------------------------------------------
(* Pure parts                                                              *)

\* parse_block_number and parse_timestamp_number; latest is the head or its timestamp.
parse_number(ref, position, latest) ==
  CASE ref[1] = "latest" -> Ok(latest)
    [] ref[1] = "empty" /\ position = "first" -> Ok(0)
    [] ref[1] = "empty" /\ position = "last" -> Ok(latest)
    [] ref[1] \in {"num", "plus"} -> Ok(ref[2])
    [] OTHER -> Err

checked_sub(a, b) == IF b > a THEN Err ELSE Ok(a - b)

evenly_spaced_subset(items, n) ==
  IF n = 0 \/ items = <<>> THEN <<>>
  ELSE IF n >= Len(items) THEN items
  ELSE IF n = 1 THEN <<items[1]>>
  ELSE [i \in 1 .. n |-> items[((i - 1) * (Len(items) - 1)) \div (n - 1) + 1]]

\* A step of zero divides by zero.
block_range_to_block_chunk(start, end, as_range, t) ==
  LET all == values(BlockRange(start, end))
      stepped == [i \in 1 .. (end - start) \div t.step + 1 |-> start + (i - 1) * t.step]
  IN IF end < start THEN Err
     ELSE IF t.kind = "keep" THEN Ok(Numbers(evenly_spaced_subset(all, t.keep)))
     ELSE IF t.kind = "step" THEN IF t.step = 0 THEN Err ELSE Ok(Numbers(stepped))
     ELSE Ok(IF as_range THEN BlockRange(start, end) ELSE Numbers(all))

\* Mutant: the block below the midpoint is searched again.
Mutblock_at_timestamp(time, latest) ==
  LET search[r \in (0 .. latest + 1) \X (0 .. latest)] ==
        LET low == r[1]
            high == r[2]
            mid == low + (high - low) \div 2
        IN IF low >= high THEN high
           ELSE IF TimeOf[mid] = time THEN mid
           ELSE IF TimeOf[mid] < time THEN search[<<mid + 1, high>>]
           ELSE IF mid = 0 THEN 0 ELSE search[<<low, mid - 1>>]
  IN search[<<0, latest>>]

\* The binary search over 0 .. latest.
block_at_timestamp(time, latest) ==
  LET search[r \in (0 .. latest + 1) \X (0 .. latest)] ==
        LET low == r[1]
            high == r[2]
            mid == low + (high - low) \div 2
        IN IF low > high THEN high
           ELSE IF TimeOf[mid] = time THEN mid
           ELSE IF TimeOf[mid] < time THEN search[<<mid + 1, high>>]
           ELSE IF mid = 0 THEN 0 ELSE search[<<low, mid - 1>>]
  IN search[<<0, latest>>]

align_and_split(cs) ==
  LET aligned == IF cmd.align THEN FlattenSeq([i \in DOMAIN cs |-> align(cs[i], cmd.chunk_size)])
                 ELSE cs
      whole == to_single_chunk(aligned)
  IN IF cmd.n_chunks # 0 THEN subchunk_by_count(whole, cmd.n_chunks)
     ELSE subchunk_by_size(whole, cmd.chunk_size)

Latest == IF cmd.unit = "block" THEN head ELSE TimeOf[head]

-----------------------------------------------------------------------------
(* parse_chunk_inputs                                                      *)

Init ==
  /\ head \in 0 .. MaxHead
  /\ born = head
  /\ cmd \in Commands
  /\ phase = "token"
  /\ at = 1
  /\ lo = 0 /\ hi = 0
  /\ parsed = <<>> /\ chunks = <<>> /\ partitions = <<>>

\* A new block.
Grow ==
  /\ head < MaxHead
  /\ head' = head + 1
  /\ UNCHANGED <<born, cmd, phase, at, lo, hi, parsed, chunks, partitions>>

Fail ==
  /\ phase' = "err"
  /\ UNCHANGED <<head, born, cmd, at, lo, hi, parsed, chunks, partitions>>

\* A request of the parser fails.
rpc_error == phase \in {"token", "second", "start", "end", "reorg"} /\ Fail

Goto(p) == phase' = p /\ UNCHANGED <<head, born, cmd, at, parsed, chunks, partitions>>

\* The chunk of a token is there.
Parsed(c) ==
  IF c.ok
  THEN /\ parsed' = Append(parsed, c.val)
       /\ at' = at + 1
       /\ phase' = IF at < Len(Tokens(cmd)) THEN "token" ELSE "post"
       /\ UNCHANGED <<head, born, cmd, lo, hi, chunks, partitions>>
  ELSE Fail

\* The first reference of a token: a lone one, or the start of a range unless it is relative.
parse_token ==
  /\ phase = "token"
  /\ at <= Len(Tokens(cmd))
  /\ LET n == parse_number(token.first, IF token.kind = "one" THEN "none" ELSE "first", Latest)
     IN \/ token.kind = "step" /\ cmd.unit = "timestamp" /\ Fail
        \/ /\ token.kind = "one" /\ cmd.unit = "block"
           /\ Parsed(IF n.ok THEN Ok(Numbers(<<n.val>>)) ELSE Err)
        \/ /\ token.kind # "one" /\ token.first[1] = "minus"
           /\ ~(token.kind = "step" /\ cmd.unit = "timestamp")
           /\ Goto("second") /\ UNCHANGED <<lo, hi>>
        \/ /\ token.kind # "one" \/ cmd.unit = "timestamp"
           /\ ~(token.kind = "step" /\ cmd.unit = "timestamp")
           /\ token.kind = "one" \/ token.first[1] # "minus"
           /\ IF n.ok THEN lo' = n.val /\ UNCHANGED hi
                           /\ Goto(IF token.kind = "one" THEN "start" ELSE "second")
              ELSE Fail

\* The rest of parse_block_range and parse_timestamp_range: where the ends are, n being what
\* the second reference stands for.
range_ends(n) ==
  LET relative == token.first[1] = "minus"
      start == IF relative THEN checked_sub(n, token.first[2]) ELSE Ok(lo)
      end == IF ~relative /\ token.second[1] = "plus" THEN lo + n ELSE n
      last == IF token.second[1] \notin {"latest", "empty"} /\ ~relative
              THEN checked_sub(end, 1) ELSE Ok(end)
      first == IF relative /\ cmd.unit = "block" /\ start.ok THEN Ok(start.val + 1) ELSE start
  IN <<first, last>>

parse_second ==
  /\ phase = "second"
  /\ LET n == parse_number(token.second, "last", Latest)
         ends == range_ends(n.val)
     IN IF ~n.ok \/ ~ends[1].ok \/ ~ends[2].ok THEN Fail
        ELSE IF cmd.unit = "block"
        THEN Parsed(block_range_to_block_chunk(ends[1].val, ends[2].val,
                                               Tokens(cmd)[at].as_range, token))
        ELSE lo' = ends[1].val /\ hi' = ends[2].val /\ Goto("start")

\* timestamp_to_block_number, once for each end: each reads the head again.
start_to_block ==
  /\ phase = "start"
  /\ IF token.kind = "one" THEN Parsed(Ok(Numbers(<<block_at_timestamp(lo, head)>>)))
     ELSE lo' = block_at_timestamp(lo, head) /\ UNCHANGED hi /\ Goto("end")

end_to_block ==
  /\ phase = "end"
  /\ Parsed(block_range_to_block_chunk(lo, block_at_timestamp(hi, head),
                                       Tokens(cmd)[at].as_range, token))

\* Nothing but files: no postprocessing.
files_only ==
  /\ phase = "token"
  /\ Tokens(cmd) = <<>>
  /\ Goto("partition") /\ UNCHANGED <<lo, hi>>

postprocess ==
  /\ phase = "post"
  /\ LET split == align_and_split(parsed)
     IN IF ~split.ok THEN Fail
        ELSE /\ chunks' = split.val
             /\ phase' = IF cmd.reorg_buffer = 0 THEN "partition" ELSE "reorg"
             /\ UNCHANGED <<head, born, cmd, at, lo, hi, parsed, partitions>>

\* The filter of apply_reorg_buffer; a chunk without blocks has no last one.
old_enough(c, max_allowed) == \E m \in max_value(c) : m <= max_allowed
filter_old(cs, max_allowed) ==
  LET kept[i \in 0 .. Len(cs)] ==
        IF i = 0 THEN <<>>
        ELSE IF old_enough(cs[i], max_allowed) THEN Append(kept[i - 1], cs[i])
        ELSE kept[i - 1]
  IN kept[Len(cs)]

\* Mutant: the first block of a chunk decides.
Mutapply_reorg_buffer ==
  /\ phase = "reorg"
  /\ cmd.reorg_buffer <= head
  /\ chunks' = SelectSeq(chunks, LAMBDA c :
                 \E m \in min_value(c) : m <= head - cmd.reorg_buffer)
  /\ phase' = "partition"
  /\ UNCHANGED <<head, born, cmd, at, lo, hi, parsed, partitions>>

\* Mutant: the parser waits for a chain that is too short.
Mutapply_reorg_buffer_waits ==
  /\ phase = "reorg"
  /\ IF cmd.reorg_buffer > head THEN UNCHANGED vars
     ELSE /\ chunks' = filter_old(chunks, head - cmd.reorg_buffer)
          /\ phase' = "partition"
          /\ UNCHANGED <<head, born, cmd, at, lo, hi, parsed, partitions>>

apply_reorg_buffer ==
  /\ phase = "reorg"
  /\ \/ cmd.reorg_buffer > head /\ Fail
     \/ /\ cmd.reorg_buffer <= head
        /\ chunks' = filter_old(chunks, head - cmd.reorg_buffer)
        /\ phase' = "partition"
        /\ UNCHANGED <<head, born, cmd, at, lo, hi, parsed, partitions>>

\* The chunks of the files come first and only they are labelled.
block_chunks ==
  [i \in DOMAIN cmd.files |-> Numbers(cmd.files[i].items)] \o chunks
block_labels ==
  IF cmd.files = <<>> THEN <<>>
  ELSE <<[i \in DOMAIN cmd.files |-> Label(cmd.files[i].name)] \o [i \in DOMAIN chunks |-> NoLabel]>>

Whole == Part(<<>>, With(cmd.other, "block", block_chunks))
Labels == [d \in ToSet(AllDims) |-> IF d = "block" THEN block_labels
                                   ELSE IF d \in DOMAIN cmd.labels THEN <<cmd.labels[d]>> ELSE <<>>]
partitioned_by ==
  IF cmd.partition_by # <<>> THEN cmd.partition_by ELSE default_partition_by(Whole, Labels, FALSE)

\* The rest of parse_partitions, --chunk-order included.
parse_partitions ==
  /\ phase = "partition"
  /\ LET cut == partition_with_labels(Whole, Labels, partitioned_by)
     IN IF ~cut.ok THEN Fail
        ELSE /\ partitions' = IF cmd.reverse THEN Reverse(cut.val) ELSE cut.val
             /\ phase' = "done"
             /\ UNCHANGED <<head, born, cmd, at, lo, hi, parsed, chunks>>

Done == phase \in {"done", "err"} /\ UNCHANGED vars

\* The parser goes on when its request is answered.
Step ==
  \/ parse_token \/ parse_second \/ start_to_block \/ end_to_block
  \/ files_only \/ postprocess \/ apply_reorg_buffer \/ parse_partitions

Next == Grow \/ rpc_error \/ Step \/ Done

Spec == Init /\ [][Next]_vars
FairSpec == Spec /\ WF_vars(Step)

-----------------------------------------------------------------------------

Occurrences(s, v) == Cardinality({i \in DOMAIN s : s[i] = v})
AllValues(cs) == chunk_values(cs)

(***************************************************************************)
(* Cutting loses and repeats nothing: over all partitions, the requests    *)
(* name each block, with each value of the other dimensions, as often as   *)
(* the command did, whether the blocks go out one by one or as ranges of   *)
(* inner_request_size.                                                     *)
(***************************************************************************)
RequestsOf(inner) ==
  FlattenSeq([i \in DOMAIN partitions |-> param_sets(partitions[i], inner)])

Blocks(r) == IF "block" \in DOMAIN r THEN r.block .. r.block ELSE r.block_range[1] .. r.block_range[2]
Others(r) == [d \in DOMAIN cmd.other |-> r[d]]

EveryRequestOnce ==
  phase = "done" =>
    \A inner \in {0, 1, 2} :
      LET asked == param_sets(Whole, 0)
          sent == RequestsOf(inner)
      IN \A i \in DOMAIN asked :
           Cardinality({j \in DOMAIN sent : /\ asked[i].block \in Blocks(sent[j])
                                            /\ Others(sent[j]) = Others(asked[i])})
             = Cardinality({j \in DOMAIN asked : asked[j] = asked[i]})

(***************************************************************************)
(* Splitting keeps the blocks and their order; aligning only drops some,   *)
(* and cuts by size at multiples of the chunk size.                        *)
(***************************************************************************)
ChunksKeepBlocks ==
  chunks # <<>> /\ cmd.reorg_buffer = 0 =>
    /\ ~cmd.align => AllValues(chunks) = AllValues(parsed)
    /\ ToSet(AllValues(chunks)) \subseteq ToSet(AllValues(parsed))
    /\ cmd.align /\ cmd.n_chunks = 0 =>
         \A i \in DOMAIN chunks : chunks[i].kind = "range" => chunks[i].from % cmd.chunk_size = 0

(***************************************************************************)
(* No block of an expression is collected before it is as old as the       *)
(* buffer asks, however the head moves between the parser's requests.      *)
(***************************************************************************)
OldEnough ==
  phase \in {"partition", "done"} =>
    \A b \in ToSet(AllValues(chunks)) : cmd.reorg_buffer # 0 => b + cmd.reorg_buffer <= head

\* "When several blocks share exactly `timestamp` [...] the search returns the first of them
\* that it probes, which is not always the last": what is promised of times needs distinct ones.
DistinctTimes == \A b \in 1 .. MaxHead : TimeOf[b - 1] < TimeOf[b]

(***************************************************************************)
(* A range that is open at the end takes every block there was when the    *)
(* command started, and none there is not.                                 *)
(***************************************************************************)
Open(t) == t.kind = "range" /\ t.second[1] \in {"latest", "empty"}

OpenRangesReachTheHead ==
  cmd.unit = "block" \/ DistinctTimes =>
    \A i \in DOMAIN parsed :
      LET t == Tokens(cmd)[i].tok
      IN Open(t) => \E m \in max_value(parsed[i]) : born <= m /\ m <= head

(***************************************************************************)
(* A range of times start:end takes every block of those times and none    *)
(* from the end on, and, unless the start is still to come, at most one    *)
(* from before it (block times distinct, as the search requires).          *)
(***************************************************************************)
TimesCovered ==
  \A i \in DOMAIN parsed :
    LET t == Tokens(cmd)[i].tok
        got == ToSet(values(parsed[i]))
    IN DistinctTimes /\ cmd.unit = "timestamp" /\ t.kind = "range"
         /\ t.first[1] = "num" /\ t.second[1] = "num" =>
         /\ \A b \in 0 .. born : t.first[2] <= TimeOf[b] /\ TimeOf[b] < t.second[2] => b \in got
         /\ \A b \in got : b > 0 => TimeOf[b] < t.second[2]
         /\ t.first[2] <= TimeOf[born] => Cardinality({b \in got : TimeOf[b] < t.first[2]}) <= 1

(***************************************************************************)
(* Every command ends, in partitions or an error.                          *)
(***************************************************************************)
CommandParsed == <>(phase \in {"done", "err"})

(***************************************************************************)
(* From the expression to the requests nothing is lost and nothing doubled: *)
(* neither where ranges are cut nor where dimensions are multiplied out.   *)
(***************************************************************************)
RequestsAreExact == ChunksKeepBlocks /\ EveryRequestOnce

(***************************************************************************)
(* The blocks of an expression are the ones it names: unsigned arithmetic  *)
(* does not wrap below block 0, open ends reach the head, and times are    *)
(* covered.                                                                *)
(***************************************************************************)
RangesCovered ==
  /\ ToSet(AllValues(parsed)) \cup {lo, hi} \subseteq Nat
  /\ OpenRangesReachTheHead /\ TimesCovered
=============================================================================
