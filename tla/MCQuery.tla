------------------------------ MODULE MCQuery ------------------------------
(***************************************************************************)
(* Query on every dataset alone and on pairs of them, with each kind of    *)
(* option in turn.                                                         *)
(***************************************************************************)
EXTENDS Query, DatasetTable

Dims == BinaryDims \cup {"BlockNumber", "CallData"}
Options == {"timestamps", "function", "inputs", "columns", "include_columns", "exclude_columns",
            "sort", "u256_types", "event_signature", "rpc", "row_group_size", "n_row_groups"}
Flags == {"csv", "json", "hex", "dry", "remember", "verbose", "no_verbose"}

\* The zero of every field; what clap puts in the place of some of them.
ZeroArgs ==
  [k \in Dims \cup Options |-> None] @@ [k \in Flags |-> FALSE] @@
  [datatype |-> <<>>, compression |-> <<>>, chunk_size |-> 0, inner_request_size |-> 0]
CliArgs ==
  [ZeroArgs EXCEPT !.compression = <<"lz4">>, !.chunk_size = 5, !.inner_request_size = 1,
                   !.rpc = Some("url")]

\* The table as one value: statistics of coverage would otherwise unfold it at every mention.
MCDatatype == LET table == Declared IN table

For(names) == [CliArgs EXCEPT !.datatype = names]
With(a, given) == given @@ a

\* The dimensions every dataset needs.
Needed == [d \in {"Address", "Contract", "FromAddress", "ToAddress", "Slot", "CallData"} |->
             Some("0xaa")]

Singles == {<<name>> : name \in UNION {Names(d) : d \in DOMAIN Datatype} \cup DOMAIN MultiDatatype}
Grouped == UNION {datatypes(m) : m \in DOMAIN MultiDatatype}
Pairs == {<<d, e>> : d \in Grouped, e \in Grouped \cup {"balances", "transactions", "events"}}

\* Each dataset by each name, with everything it may need.
Lookups == {With(For(names), Needed) : names \in Singles \cup Pairs}

\* Each dataset with every choice of the addresses, by block and by transaction.
Addresses ==
  {With(For(<<d>>), [k \in given |-> Some("0xaa")]) :
     d \in DOMAIN Datatype,
     given \in SUBSET {"Address", "Contract", "ToAddress", "CallData", "TransactionHash"}}

Event(kinds) == Some([parses |-> TRUE, inputs |-> kinds])
Input(name, kind) == [name |-> name, kind |-> kind]

Values ==
  [columns |-> {Some(<<"all">>), Some(<<"block_number", "value">>), Some(<<"value">>)},
   include_columns |-> {Some(<<"all">>), Some(<<"block_hash">>), Some(<<"block_hash", "value">>)},
   exclude_columns |-> {Some(<<"block_hash">>), Some(<<"block_number">>), Some(<<"chain_id", "value">>)},
   sort |-> {Some(<<>>), Some(<<"none">>), Some(<<"value">>), Some(<<"block_number">>)},
   u256_types |-> {Some(<<"u64", "float">>), Some(<<"binary", "d128">>), Some(<<"bits">>)},
   event_signature |-> {Event(<<Input("x", kind)>>) : kind \in ToSet(Vectors) \cup {"array", "fixed_bytes", "address"}}
                         \cup {Event(<<Input("x", "address"), Input("y", "u256")>>),
                               Event(<<Input("x", "address"), Input("x", "u256")>>),
                               Some([parses |-> FALSE, inputs |-> <<>>])},
   csv |-> {TRUE}, json |-> {TRUE}, hex |-> {TRUE}]

\* Some datasets with every pair of options.
Chosen == {<<"logs">>, <<"events", "erc20_transfers">>, <<"transactions">>, <<"blobs">>, <<"slots">>,
           <<"balance_diffs", "nonce_diffs">>, <<"blocks", "transactions", "balances">>}
Schemas ==
  UNION {{With(With(With(For(names), Needed), k :> v), l :> w) : v \in Values[k], w \in Values[l]} :
           names \in Chosen, k \in DOMAIN Values, l \in DOMAIN Values}

Output ==
  {[For(<<"blocks">>) EXCEPT !.compression = c, !.n_row_groups = n, !.row_group_size = r,
                             !.verbose = v, !.no_verbose = TRUE, !.rpc = None] :
     c \in {<<"zstd">>, <<"zstd", 3>>, <<"gzip", 11>>, <<"lz4">>}, v \in BOOLEAN,
     n \in {None, Some(1), Some(2), Some(4), Some(7)}, r \in {None, Some(3)}}

Calls ==
  {[For(<<"eth_calls">>) EXCEPT !.Contract = Some("0xaa"), !.CallData = c, !.function = f, !.inputs = i,
                                !.Topic0 = t, !.inner_request_size = 70] :
     c \in {None, Some("0xaa"), Some("not hexadecimal")}, f \in {None, Some("0xbb")},
     i \in {None, Some("0xcc")}, t \in {None, Some("not hexadecimal")}}

Helps == {For(<<"help">> \o names) : names \in {<<>>, <<"syntax">>, <<"datasets">>, <<"logs">>, <<"none">>}}

Kept == {[For(<<"logs">>) EXCEPT !.remember = TRUE, !.BlockNumber = b, !.exclude_columns = c] :
           b \in {None, Some("1:2")}, c \in {None, Some(<<"block_hash">>)}}

MCCommands == Lookups \cup Addresses \cup Schemas \cup Output \cup Calls \cup Helps \cup Kept
                \cup {CliArgs}
MCFollowups == {[CliArgs EXCEPT !.dry = d, !.remember = r, !.BlockNumber = b, !.hex = h] :
                  d, r, h \in BOOLEAN, b \in {None, Some("3:4")}}
MCEnvironments == {[mesc |-> m, ETH_RPC_URL |-> e] : m \in {None, Some("m")}, e \in {None, Some("e")}}

\* Only what is remembered and what follows.
MCKept == Kept
=============================================================================
