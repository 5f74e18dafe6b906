------------------------------- MODULE Chunks -------------------------------
(***************************************************************************)
(* Chunks of block numbers and of binary values: what is in them, how they *)
(* are split, aligned and named.  A binary value is a number that orders   *)
(* as its bytes do; its first PrefixLen digits are what a name shows.      *)
(***************************************************************************)
EXTENDS Results, Integers, Sequences, SequencesExt, FiniteSetsExt

CONSTANTS
  PrefixBase,  \* binary values with one quotient by it share their first digits
  ShortValues  \* binary values too short for format_item

\* NumberChunk and BinaryChunk.
Numbers(s) == [kind |-> "numbers", items |-> s]
BlockRange(a, b) == [kind |-> "range", from |-> a, to |-> b]
Values(s) == [kind |-> "values", items |-> s]

values(c) ==
  IF c.kind = "range" THEN [i \in 1 .. c.to - c.from + 1 |-> c.from + i - 1] ELSE c.items

size(c) == IF c.kind = "range" THEN c.to - c.from + 1 ELSE Len(c.items)

\* min_value and max_value, as the set of at most one.
min_value(c) ==
  IF c.kind = "range" THEN {c.from} ELSE IF c.items = <<>> THEN {} ELSE {Min(ToSet(c.items))}
max_value(c) ==
  IF c.kind = "range" THEN {c.to} ELSE IF c.items = <<>> THEN {} ELSE {Max(ToSet(c.items))}

\* The loop of range_to_chunks; end is inclusive.
range_to_chunks(start, end, chunk_size) ==
  LET from[s \in start .. end] ==
        LET e == IF s + chunk_size - 1 > end THEN end ELSE s + chunk_size - 1
        IN <<<<s, e>>>> \o (IF e = end THEN <<>> ELSE from[s + chunk_size])
  IN IF chunk_size = 0 THEN <<<<start, end>>>> ELSE from[start]

\* slice::chunks; a size of zero panics.
slice_chunks(s, n) ==
  [i \in 1 .. (Len(s) + n - 1) \div n |-> SubSeq(s, (i - 1) * n + 1, Min({i * n, Len(s)}))]

\* Panics, as an error, on an empty list or a zero size of numbers.
subchunk_by_size(c, chunk_size) ==
  IF c.kind = "range"
  THEN Ok([i \in DOMAIN range_to_chunks(c.from, c.to, chunk_size) |->
             BlockRange(range_to_chunks(c.from, c.to, chunk_size)[i][1],
                        range_to_chunks(c.from, c.to, chunk_size)[i][2])])
  ELSE IF chunk_size = 0 THEN Err
  ELSE Ok([i \in DOMAIN slice_chunks(c.items, chunk_size) |->
             Numbers(slice_chunks(c.items, chunk_size)[i])])

div_ceil(a, b) == (a + b - 1) \div b

subchunk_by_count(c, n_chunks) ==
  IF n_chunks = 0 THEN subchunk_by_size(c, Max({size(c), 1}))
  ELSE subchunk_by_size(c, div_ceil(size(c), n_chunks))

\* Several chunks become one list, in order, overlaps kept.
to_single_chunk(cs) ==
  IF Len(cs) = 1 THEN cs[1] ELSE Numbers(FlattenSeq([i \in DOMAIN cs |-> values(cs[i])]))

\* NumberChunk::align, as the list of at most one chunk.
align(c, chunk_size) ==
  IF c.kind # "range" THEN <<c>>
  ELSE LET start == div_ceil(c.from, chunk_size) * chunk_size
           end == (c.to \div chunk_size) * chunk_size
       IN IF end > start THEN <<BlockRange(start, end)>> ELSE <<>>

-----------------------------------------------------------------------------
(* Names                                                                   *)

\* Eight digits name a number; of a binary value its first six.
format_item(c, v) ==
  IF c.kind # "values" THEN Ok(v)
  ELSE IF v \in ShortValues THEN Err ELSE Ok(v \div PrefixBase)

\* ChunkData for Vec<T>: the least and the greatest of all the chunks.
stub(cs) ==
  LET least == UNION {min_value(cs[i]) : i \in DOMAIN cs}
      greatest == UNION {max_value(cs[i]) : i \in DOMAIN cs}
  IN IF least = {} THEN Err
     ELSE LET lo == format_item(cs[1], Min(least))
              hi == format_item(cs[1], Max(greatest))
          IN IF lo.ok /\ hi.ok THEN Ok(<<lo.val, hi.val>>) ELSE Err

\* ChunkStats of a list of chunks.
stats(cs) ==
  LET least == UNION {min_value(cs[i]) : i \in DOMAIN cs}
      greatest == UNION {max_value(cs[i]) : i \in DOMAIN cs}
  IN [min |-> IF least = {} THEN {} ELSE {Min(least)},
      max |-> IF greatest = {} THEN {} ELSE {Max(greatest)},
      total |-> FoldLeft(LAMBDA n, c : n + size(c), 0, cs),
      n_chunks |-> Len(cs)]

\* ChunkStats::fold: None orders before Some, so it wins the minimum.
fold_stats(a, b) ==
  [min |-> IF a.min = {} \/ b.min = {} THEN {} ELSE {Min(a.min \cup b.min)},
   max |-> IF a.max \cup b.max = {} THEN {} ELSE {Max(a.max \cup b.max)},
   total |-> a.total + b.total,
   n_chunks |-> a.n_chunks + b.n_chunks]
=============================================================================
