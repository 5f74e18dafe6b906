----------------------------- MODULE Partitions -----------------------------
(***************************************************************************)
(* A partition holds chunks along several dimensions.  It is cut along     *)
(* some of them into the partitions that become files, and each of those   *)
(* is multiplied out into the parameters of its requests.                  *)
(***************************************************************************)
EXTENDS Chunks

\* Dim::all_dims; Partition::dims lists call data after the addresses.
AllDims ==
  <<"block", "transaction", "call_data", "address", "contract", "from_address", "to_address",
    "slot", "topic0", "topic1", "topic2", "topic3">>
DimOrder ==
  <<"block", "transaction", "address", "contract", "from_address", "to_address", "call_data",
    "slot", "topic0", "topic1", "topic2", "topic3">>

\* A Partition: its label and, by dimension, its chunks.
Part(label, chunks) == [label |-> label, chunks |-> chunks]
NoLabel == <<"none">>
Label(name) == <<"some", name>>

dims(p) == SelectSeq(DimOrder, LAMBDA d : d \in DOMAIN p.chunks)
n_chunks(p, d) == IF d \in DOMAIN p.chunks THEN Len(p.chunks[d]) ELSE 0

With(f, d, v) == [x \in DOMAIN f \cup {d} |-> IF x = d THEN v ELSE f[x]]

\* label_partition!: every output is split along one dimension.
label_partition(outputs, dim_labels, d) ==
  LET pieces(p) ==
        [i \in DOMAIN p.chunks[d] |->
           Part(Append(p.label, IF dim_labels = <<>> THEN NoLabel ELSE dim_labels[1][i]),
                With(p.chunks, d, <<p.chunks[d][i]>>))]
      good(p) == /\ d \in DOMAIN p.chunks
                 /\ dim_labels # <<>> => Len(p.chunks[d]) = Len(dim_labels[1])
  IN IF \A i \in DOMAIN outputs : good(outputs[i])
     THEN Ok(FlattenSeq([i \in DOMAIN outputs |-> pieces(outputs[i])]))
     ELSE Err

\* labels[d] is the optional list of labels of a dimension, as a list of at most one.
partition_with_labels(p, labels, partition_by) ==
  FoldLeft(LAMBDA r, d : IF r.ok THEN label_partition(r.val, labels[d], d) ELSE Err,
           Ok(<<Part(<<>>, p.chunks)>>), partition_by)

\* partition!: a missing dimension gives no output at all.
partition_dim(outputs, d) ==
  LET pieces(p) ==
        IF d \in DOMAIN p.chunks
        THEN [i \in DOMAIN p.chunks[d] |-> Part(p.label, With(p.chunks, d, <<p.chunks[d][i]>>))]
        ELSE <<>>
  IN FlattenSeq([i \in DOMAIN outputs |-> pieces(outputs[i])])

partition(p, partition_by) == FoldLeft(partition_dim, <<p>>, partition_by)

dim_labeled(ls) == ls # <<>> /\ \E i \in DOMAIN ls[1] : ls[1][i] # NoLabel

\* The dimensions parse_partitions cuts along when --partition-by is not given.
default_partition_by(p, labels, txs) ==
  LET multichunk == SelectSeq(AllDims, LAMBDA d : dim_labeled(labels[d]) /\ n_chunks(p, d) > 1)
  IN IF txs THEN <<"transaction">> ELSE IF multichunk = <<>> THEN <<"block">> ELSE multichunk

\* label_pieces: the stored label of a dimension, or the name of its chunks.
label_pieces(p, partitioned_by) ==
  LET piece(i) ==
        IF p.label[i] # NoLabel THEN Ok(p.label[i])
        ELSE IF partitioned_by[i] \notin DOMAIN p.chunks THEN Err
        ELSE LET s == stub(p.chunks[partitioned_by[i]])
             IN IF s.ok THEN Ok(<<"named", s.val>>) ELSE Err
  IN IF Len(p.label) # Len(partitioned_by) \/ \E i \in DOMAIN partitioned_by : ~piece(i).ok
     THEN Err
     ELSE Ok([i \in DOMAIN partitioned_by |-> piece(i).val])

-----------------------------------------------------------------------------
(* Requests                                                                *)

\* parametrize!: each output once for each value of the dimension.
parametrize(outputs, d, vs) ==
  FlattenSeq([i \in DOMAIN outputs |-> [j \in DOMAIN vs |-> With(outputs[i], d, vs[j])]])

chunk_values(cs) == FlattenSeq([i \in DOMAIN cs |-> values(cs[i])])

block_ranges(cs, inner) ==
  LET subs == subchunk_by_size(to_single_chunk(cs), inner)
      ranges(c) == IF c.kind = "range" THEN <<<<c.from, c.to>>>>
                   ELSE [i \in DOMAIN c.items |-> <<c.items[i], c.items[i]>>]
  IN FlattenSeq([i \in DOMAIN subs.val |-> ranges(subs.val[i])])

\* Mutant: the block ranges of each chunk are cut on their own from the first chunk's start.
Mutparam_sets(p, inner) ==
  LET plain == SelectSeq(dims(p), LAMBDA d : d # "block" \/ inner = 0)
      product == FoldLeft(LAMBDA acc, d : parametrize(acc, d, chunk_values(p.chunks[d])),
                          <<<<>>>>, plain)
  IN IF inner = 0 \/ "block" \notin DOMAIN p.chunks THEN product
     ELSE parametrize(product, "block_range", block_ranges(<<p.chunks["block"][1]>>, inner))

\* param_sets: inner is the optional inner_request_size, 0 for none.
param_sets(p, inner) ==
  LET include_block_ranges == inner # 0 /\ "block" \in DOMAIN p.chunks
      plain == SelectSeq(dims(p), LAMBDA d : ~(d = "block" /\ include_block_ranges))
      product == FoldLeft(LAMBDA acc, d : parametrize(acc, d, chunk_values(p.chunks[d])),
                          <<<<>>>>, plain)
  IN IF include_block_ranges
     THEN parametrize(product, "block_range", block_ranges(p.chunks["block"], inner))
     ELSE product

\* meta_chunks_stats, by dimension.
meta_chunks_stats(ps) ==
  LET fold(acc, p) ==
        [d \in DOMAIN acc \cup DOMAIN p.chunks |->
           IF d \notin DOMAIN acc THEN stats(p.chunks[d])
           ELSE IF d \notin DOMAIN p.chunks THEN acc[d]
           ELSE fold_stats(acc[d], stats(p.chunks[d]))]
  IN FoldLeft(fold, <<>>, ps)
=============================================================================
