------------------------------- MODULE Frames -------------------------------
(***************************************************************************)
(* Schemas and the data frames built from them: which columns a command    *)
(* line selects for a dataset (types/schemas.rs), which series to_df       *)
(* makes of them and of a decoded event, and what a collection task gets   *)
(* from create_dfs.  A series is <<prefix, name, representation, type>>,   *)
(* the prefix "event__" for a decoded one; the values it holds are left    *)
(* out, its length is kept where it can differ.                            *)
(***************************************************************************)
EXTENDS Results, Sequences, SequencesExt, TLC

CONSTANT
  Datatype  \* what each dataset declares of itself, by name: see DatasetTable

\* What an Option<Vec<String>> names.
Named(option) == UNION {ToSet(names) : names \in option}

\* Mutant: an excluded column comes back when the include list is added.
Mutcompute_used_columns(all, default, include, exclude, columns) ==
    IF columns # None THEN Named(columns)
    ELSE ((default \ Named(exclude)) \cup Named(include)) \cap all

compute_used_columns(all, default, include, exclude, columns) ==
    CASE columns = Some(<<"all">>) -> all
      [] columns \notin {None, Some(<<"all">>)} -> Named(columns)
      [] columns = None /\ include = Some(<<"all">>) -> all
      [] columns = None /\ include # Some(<<"all">>) ->
           (IF include = None THEN default ELSE (default \cup Named(include)) \cap all)
           \ Named(exclude)

\* The u256 types by the words that name them.
U256Words ==
    [word \in {"binary"} |-> "binary"] @@ [word \in {"string", "str"} |-> "string"] @@
    [word \in {"f32", "float32"} |-> "f32"] @@ [word \in {"f64", "float64", "float"} |-> "f64"] @@
    [word \in {"u32", "uint32"} |-> "u32"] @@ [word \in {"u64", "uint64"} |-> "u64"] @@
    [word \in {"decimal128", "d128"} |-> "d128"]

parse_u256_types(raw) ==
    IF raw = None THEN Ok(<<"binary", "string", "f64">>)
    ELSE IF Named(raw) \subseteq DOMAIN U256Words
         THEN Ok([i \in DOMAIN Unwrap(raw) |-> U256Words[Unwrap(raw)[i]]])
         ELSE Err

\* An unknown column is refused; a binary column is hexadecimal when asked.
table_schema(d, u256_types, encoding, args, sort, decoder) ==
    LET types == Datatype[d].columns
        used == compute_used_columns(DOMAIN types, Datatype[d].default, args.include_columns,
                                     args.exclude_columns, args.columns)
    IN IF used \subseteq DOMAIN types
       THEN Ok([datatype |-> d, sort |-> sort, u256_types |-> u256_types,
                binary_type |-> encoding, decoder |-> decoder,
                columns |-> [c \in used |-> IF types[c] = "binary" THEN encoding ELSE types[c]]])
       ELSE Err

\* The series of one u256 value: with_series_u256 takes each type once, to_u256_series as listed.
u256_series(prefix, name, u, encoding) ==
    <<prefix, name, u, IF u = "binary" THEN encoding ELSE u>>

with_series_u256(t, c) == {u256_series("", c, u, t.binary_type) : u \in ToSet(t.u256_types)}

with_series(t, c) == {<<"", c, "", t.columns[c]>>}

-----------------------------------------------------------------------------
(* The event columns.  A decoder is the sequence of the event's inputs,    *)
(* each a record of a name and a kind; every row decodes, or it is no row. *)

\* The vectors of make_series, in the order it looks at them.
Vectors == <<"int", "i256", "u256", "uint", "bytes", "bool", "string">>
Vector(kind) == IF kind \in {"address", "fixed_bytes"} THEN "bytes" ELSE kind

\* The values of the inputs of one name land in the same vectors, a row's one after another.
Filled(inputs, name, vector) ==
    Len(SelectSeq(inputs, LAMBDA x : x.name = name /\ Vector(x.kind) = vector))

\* Columns of values, each with how many it holds for one row; an empty choice is a dropped one.
make_series(t, name) ==
    LET inputs == Unwrap(t.decoder)
        first == SelectSeq(Vectors, LAMBDA v : Filled(inputs, name, v) > 0)
        held == Filled(inputs, name, first[1])
        Plain(encoding) == <<[series |-> <<"event__", name, "", encoding>>, per_row |-> held]>>
        Wide == [i \in DOMAIN t.u256_types |->
                   [series |-> u256_series("event__", name, t.u256_types[i], t.binary_type),
                    per_row |-> held]]
    IN CASE first = <<>> -> Ok(<<[series |-> <<"event__", name, "", "null">>, per_row |-> 1]>>)
         [] first # <<>> /\ first[1] \in {"i256", "u256"} ->
              IF "d128" \in ToSet(t.u256_types) THEN Err ELSE Ok(Wide)
         [] first # <<>> /\ first[1] \in {"bytes", "bool", "string"} /\ held # 1 -> Err
         [] first # <<>> /\ first[1] = "bytes" /\ held = 1 -> Ok(Plain(t.binary_type))
         [] OTHER -> Ok(Plain(first[1]))

\* Mutant: an empty frame keeps one column for a wide integer.
Mutcreate_empty_columns(t, input) ==
    IF Vector(input.kind) = "bytes" /\ input.kind # "fixed_bytes"
    THEN Ok(<<<<"event__", input.name, "", t.binary_type>>>>)
    ELSE Ok(<<<<"event__", input.name, "", input.kind>>>>)

\* The columns of an event of which no row was seen.
create_empty_columns(t, input) ==
    CASE input.kind \in {"address", "bytes"} -> Ok(<<<<"event__", input.name, "", t.binary_type>>>>)
      [] input.kind \in {"i256", "u256"} ->
           Ok([i \in DOMAIN t.u256_types |->
                 u256_series("event__", input.name, t.u256_types[i], t.binary_type)])
      [] input.kind \in {"int", "uint", "bool", "string"} ->
           Ok(<<<<"event__", input.name, "", input.kind>>>>)
      [] input.kind \in {"fixed_bytes", "array"} -> Err

\* The event's series: Err when the frame cannot be made, a series that fails alone is dropped.
event_series(t, rows) ==
    LET inputs == Unwrap(t.decoder)
        names == {inputs[i].name : i \in DOMAIN inputs}
        empty == [i \in DOMAIN inputs |-> create_empty_columns(t, inputs[i])]
        made == [i \in DOMAIN SetToSeq(names) |-> make_series(t, SetToSeq(names)[i])]
        kept == FlattenSeq([i \in DOMAIN made |-> IF made[i].ok THEN made[i].val ELSE <<>>])
    IN IF rows = 0
       THEN IF \A i \in DOMAIN empty : empty[i].ok
            THEN Ok(FlattenSeq([i \in DOMAIN empty |-> empty[i].val])) ELSE Err
       ELSE IF \A i \in DOMAIN kept : kept[i].per_row = 1
            THEN Ok([i \in DOMAIN kept |-> kept[i].series]) ELSE Err

-----------------------------------------------------------------------------
\* sort_by_schema: every column sorted by must be a series of the frame.
sort_by_schema(frame, t) ==
    IF \A c \in Named(t.sort) : \E series \in frame : SubSeq(series, 1, 3) = <<"", c, "">>
    THEN Ok(frame) ELSE Err

\* The frame to_df makes of a dataset's columns.
to_df(t, rows) ==
    LET wide == {c \in DOMAIN t.columns : t.columns[c] = "u256"}
        columns == UNION {with_series_u256(t, c) : c \in wide}
                     \cup UNION {with_series(t, c) : c \in DOMAIN t.columns \ wide}
        decodes == t.decoder # None /\ t.datatype = "logs"
        events == IF decodes THEN event_series(t, rows) ELSE Ok(<<>>)
        dropped == IF decodes THEN {"topic1", "topic2", "topic3", "data"} ELSE {}
    IN IF \/ wide # {} /\ "d128" \in ToSet(t.u256_types)
          \/ ~ events.ok
          \/ ~ IsInjective([i \in DOMAIN events.val |-> SubSeq(events.val[i], 1, 3)])
       THEN Err
       ELSE sort_by_schema({series \in columns : series[2] \notin dropped} \cup ToSet(events.val), t)

\* MultiDatatype, the members in the order the code lists them.
MultiDatatype ==
    "blocks_and_transactions" :> <<"blocks", "transactions">> @@
    "call_trace_derivatives" :> <<"contracts", "native_transfers", "traces">> @@
    "geth_state_diffs" :>
      <<"geth_balance_diffs", "geth_code_diffs", "geth_nonce_diffs", "geth_storage_diffs">> @@
    "log_events" :> <<"logs", "erc20_transfers", "erc20_approvals", "erc721_transfers",
                      "erc20_wrapper_events">> @@
    "state_diffs" :> <<"balance_diffs", "code_diffs", "nonce_diffs", "storage_diffs">> @@
    "state_reads" :> <<"balance_reads", "code_reads", "nonce_reads", "storage_reads">>

variants == <<"blocks_and_transactions", "call_trace_derivatives", "geth_state_diffs",
              "log_events", "state_diffs", "state_reads">>

\* MetaDatatype::datatypes
datatypes(meta) == IF meta \in DOMAIN MultiDatatype THEN ToSet(MultiDatatype[meta]) ELSE {meta}

\* Some groups make only the frames that were asked for, the others want every schema.
create_dfs(meta, schemas, rows) ==
    LET partial == meta \in {"call_trace_derivatives", "state_reads", "log_events"}
        members == IF partial THEN datatypes(meta) \cap DOMAIN schemas ELSE datatypes(meta)
        Made(d) == to_df(schemas[d], rows)
    IN IF members \subseteq DOMAIN schemas /\ \A d \in members : Made(d).ok
       THEN Ok([d \in members |-> Made(d).val])
       ELSE Err
=============================================================================
