------------------------------- MODULE Query -------------------------------
(***************************************************************************)
(* A command from its arguments to its frames: the remembered command of   *)
(* cli/src/run.rs, parse_args (source, query, output, environment), the    *)
(* check freeze makes of the query, the dispatch to the datasets, and one  *)
(* partition's frames.  Block ranges and files are BlockInput's: here a    *)
(* dimension is given or not, and its value reads as hexadecimal or not.   *)
(***************************************************************************)
EXTENDS Frames, FiniteSetsExt, Integers

CONSTANTS
  Commands,     \* the arguments a process is started with, as clap reads them
  Followups,    \* the ones a second process in the same directory may get
  Environments, \* the endpoints MESC and ETH_RPC_URL may hold
  Cli,          \* the arguments of a run that passes no flags
  Zero          \* Args::default(), every field the zero of its type

ASSUME ArgsAssumption == DOMAIN Cli = DOMAIN Zero

VARIABLES
  pc,           \* the step the process is about to make, or failed at
  status,       \* "running", "done" or "failed"
  args,         \* its arguments, after the remembered ones and the aliases
  asked,        \* the arguments it was started with
  remembered,   \* the command remembered in the directory, if any
  query,        \* what was parsed so far
  frames        \* the frames of each task, once collected

vars == <<pc, status, args, asked, remembered, query, frames>>

-----------------------------------------------------------------------------
\* alias_map: the names of a datatype; a conflict anywhere fails every lookup.
Names(d) == {d} \cup Datatype[d].aliases
alias_conflict ==
  \E d \in DOMAIN Datatype : \/ d \in Datatype[d].aliases
                             \/ \E e \in DOMAIN Datatype \ {d} : Names(d) \cap Names(e) # {}

from_str(name) ==
  LET found == {d \in DOMAIN Datatype : name \in Names(d)}
  IN IF alias_conflict \/ found = {} THEN Err ELSE Ok(Unwrap(found))

parse_datatypes(raw) ==
  LET Read(name) == IF name \in DOMAIN MultiDatatype THEN Ok(MultiDatatype[name])
                    ELSE Then(from_str(name), LAMBDA d : <<d>>)
  IN IF \A i \in DOMAIN raw : Read(raw[i]).ok
     THEN Ok(FlattenSeq([i \in DOMAIN raw |-> Read(raw[i]).val]))
     ELSE Err

parse_sort_columns(raw, dts) ==
  CASE raw = None -> Ok([d \in ToSet(dts) |-> Some(Datatype[d].sort)])
    [] raw = Some(<<"none">>) -> Ok([d \in ToSet(dts) |-> None])
    [] raw \notin {None, Some(<<"none">>)} ->
         IF raw # Some(<<>>) /\ Len(dts) = 1 THEN Ok(dts[1] :> raw) ELSE Err

parse_output_format(a) ==
  IF a.csv /\ a.json THEN Err
  ELSE Ok(IF a.csv THEN "csv" ELSE IF a.json THEN "json" ELSE "parquet")

\* Every included column must have landed in a schema, every excluded one be of a dataset.
ensure_included_columns(include, schemas) ==
  \A c \in Named(include) : c = "all" \/ \E d \in DOMAIN schemas : c \in DOMAIN schemas[d].columns
ensure_excluded_columns(exclude, schemas) ==
  \A c \in Named(exclude) : \E d \in DOMAIN schemas : c \in DOMAIN Datatype[d].columns

parse_schemas(a) ==
  LET dts == parse_datatypes(a.datatype)
      sort == parse_sort_columns(a.sort, dts.val)
      types == parse_u256_types(a.u256_types)
      format == parse_output_format(a)
      encoding == IF a.hex \/ format.val # "parquet" THEN "hex" ELSE "binary"
      tables == [d \in ToSet(dts.val) |->
                   table_schema(d, types.val, encoding, a, sort.val[d],
                                {event.inputs : event \in a.event_signature})]
      schemas == [d \in DOMAIN tables |-> tables[d].val]
  IN IF /\ dts.ok /\ sort.ok /\ types.ok /\ format.ok
        /\ \A event \in a.event_signature : event.parses
        /\ \A d \in DOMAIN tables : tables[d].ok
        /\ ensure_included_columns(a.include_columns, schemas)
        /\ ensure_excluded_columns(a.exclude_columns, schemas)
     THEN Ok([datatypes |-> dts.val, schemas |-> schemas])
     ELSE Err

-----------------------------------------------------------------------------
\* Mutant: only the optional dimensions are looked at.
Mutfind_arg_aliases(a, schemas) ==
  {swap \in UNION {Datatype[d].arg_aliases : d \in DOMAIN schemas} :
     /\ \E d \in DOMAIN schemas : swap[2] \in Datatype[d].optional
     /\ a[swap[2]] = None /\ a[swap[1]] # None}

\* The arguments to be read in the place of a missing one; their order is a HashMap's.
find_arg_aliases(a, schemas) ==
  {swap \in UNION {Datatype[d].arg_aliases : d \in DOMAIN schemas} :
     /\ \E d \in DOMAIN schemas : /\ swap \in Datatype[d].arg_aliases
                                  /\ swap[2] \in Datatype[d].required \cup Datatype[d].optional
     /\ a[swap[2]] = None /\ a[swap[1]] # None}

Pairings == {<<"Contract", "Address">>, <<"ToAddress", "Address">>, <<"Address", "Contract">>,
             <<"ToAddress", "Contract">>, <<"Address", "ToAddress">>, <<"Contract", "ToAddress">>}

apply_arg_aliases(a, swaps) ==
  IF ToSet(swaps) \subseteq Pairings
  THEN Ok(FoldLeft(LAMBDA acc, swap : [acc EXCEPT ![swap[2]] = acc[swap[1]], ![swap[1]] = None],
                   a, swaps))
  ELSE Err

parse_call_datas(a) ==
  CASE a.CallData = None /\ a.function = None /\ a.inputs = None -> Ok(None)
    [] a.CallData # None /\ a.function = None /\ a.inputs = None -> Ok(a.CallData)
    [] a.CallData = None /\ a.function # None -> Ok(a.function \cup a.inputs)
    [] OTHER -> Err

\* The dimensions parsed as hexadecimal or as a file of it.
BinaryDims == {"TransactionHash", "Address", "Contract", "FromAddress", "ToAddress", "Slot",
               "Topic0", "Topic1", "Topic2", "Topic3"}
parse_binary_arg(value) == "not hexadecimal" \notin value

\* The dimensions of the partitions, and the blocks a command that names no time gets.
parse_dims(a, schemas) ==
  LET call_datas == parse_call_datas(a)
      given == {d \in BinaryDims : a[d] # None}
      timed == a.BlockNumber # None \/ a.timestamps # None
      txs == a.TransactionHash # None
      latest == \E d \in DOMAIN schemas : Datatype[d].blocks = "latest"
  IN IF call_datas.ok /\ parse_binary_arg(call_datas.val) /\ \A d \in given : parse_binary_arg(a[d])
     THEN Ok([dims |-> given \cup (IF call_datas.val = None THEN {} ELSE {"CallData"})
                             \cup (IF timed \/ ~ txs THEN {"BlockNumber"} ELSE {}),
              blocks |-> IF timed THEN "given" ELSE IF txs THEN "none"
                         ELSE IF latest THEN "latest" ELSE "0:latest",
              time_dimension |-> IF txs THEN "transactions" ELSE "blocks"])
     ELSE Err

\* Mutant: a member of a group is collected on its own as well.
Mutcluster_datatypes(dts) ==
  SelectSeq(variants, LAMBDA m : Cardinality(datatypes(m) \cap ToSet(dts)) >= 2) \o dts

cluster_datatypes(dts) ==
  LET mdts == SelectSeq(variants, LAMBDA m : Cardinality(datatypes(m) \cap ToSet(dts)) >= 2)
      grouped == UNION {datatypes(mdts[i]) : i \in DOMAIN mdts}
  IN mdts \o SelectSeq(dts, LAMBDA d : d \notin grouped)

-----------------------------------------------------------------------------
(* The source, the output and the environment.                             *)

\* MESC's endpoint, else --rpc, else ETH_RPC_URL.
parse_rpc_url(a, env) ==
  LET found == <<env.mesc, a.rpc, env.ETH_RPC_URL>>
      first == {i \in 1 .. 3 : found[i] # None /\ \A j \in 1 .. i - 1 : found[j] = None}
  IN IF first = {} THEN Err ELSE Ok(Unwrap(found[Unwrap(first)]))

\* The algorithms that take a level want one in range, the others none.
Levels == "gzip" :> 0 .. 9 @@ "brotli" :> 0 .. 11 @@ "zstd" :> 1 .. 22
parse_compression(words) ==
  \/ Len(words) = 1 /\ words[1] \in {"uncompressed", "snappy", "lz4"}
  \/ Len(words) = 2 /\ words[1] \in DOMAIN Levels /\ words[2] \in Levels[words[1]]

parse_row_group_size(a) ==
  IF a.row_group_size # None THEN a.row_group_size
  ELSE {(a.chunk_size + n - 1) \div n : n \in a.n_row_groups}

parse_file_output(a) ==
  IF parse_compression(a.compression) /\ parse_output_format(a).ok
  THEN Ok([row_group_size |-> parse_row_group_size(a), format |-> parse_output_format(a).val])
  ELSE Err

parse_execution_env(a) == ~ (a.no_verbose /\ a.verbose)

\* The requirements of every member of every group, those not asked for included.
is_valid(metas, dims) ==
  UNION {Datatype[d].required : d \in UNION {datatypes(metas[i]) : i \in DOMAIN metas}} \subseteq dims

\* collect_by_block's blocks per request.
inner_request_size(meta, a) ==
  LET AtLeast(d) == Some(Max({a.inner_request_size, Datatype[d].inner_request_size}))
  IN IF meta = "log_events" THEN AtLeast("logs")
     ELSE IF meta \in DOMAIN Datatype /\ Datatype[meta].by_range THEN AtLeast(meta) ELSE None

\* collect_by_transaction: a dataset without it fails at its first transaction.
collect(meta, q, rows) ==
  IF q.time_dimension = "transactions" /\ \E d \in {meta} \cap DOMAIN Datatype : ~ Datatype[d].by_transaction
  THEN Err
  ELSE create_dfs(meta, q.schemas, rows)

\* Args::merge_with_precedence(self, other): what other has that is not a zero is kept.
merge_with_precedence(self, other) ==
  [k \in DOMAIN self |-> IF other[k] # Zero[k] THEN other[k] ELSE self[k]]

-----------------------------------------------------------------------------
Init ==
  /\ asked \in Commands /\ args = asked
  /\ pc = "run" /\ status = "running"
  /\ remembered = None /\ query = [row_group_size |-> None] /\ frames = <<>>

\* A step that reads something of the arguments, or ends the process with its error.
At(step) == pc = step /\ status = "running"
Goto(step) == pc' = step /\ UNCHANGED status
End(how) == status' = how /\ UNCHANGED <<pc, args, query>>
Step(result, step) ==
  IF result.ok THEN Goto(step) /\ query' = result.val @@ query /\ UNCHANGED args
  ELSE End("failed")

\* triodion help ...
IsHelp == asked.datatype # <<>> /\ Head(asked.datatype) = "help"
help ==
  /\ At("run") /\ IsHelp
  /\ LET named == Tail(asked.datatype)
     IN End(IF named \in {<<>>, <<"syntax">>, <<"datasets">>}
               \/ parse_schemas([args EXCEPT !.datatype = named]).ok
            THEN "done" ELSE "failed")
  /\ UNCHANGED <<asked, remembered, frames>>

save_remembered_command(a) == remembered' = Some([a EXCEPT !.remember = FALSE])

\* A command without a dataset is the remembered one; --remember saves what is run.
run ==
  /\ At("run") /\ ~ IsHelp
  /\ IF asked.datatype = <<>> /\ remembered = None
     THEN End("failed") /\ UNCHANGED remembered
     ELSE LET a == IF asked.datatype = <<>> THEN merge_with_precedence(asked, Unwrap(remembered))
                   ELSE asked
          IN /\ args' = a
             /\ IF a.remember THEN save_remembered_command(a) ELSE UNCHANGED remembered
             /\ Goto("source") /\ UNCHANGED query
  /\ UNCHANGED <<asked, frames>>

parse_source ==
  /\ At("source")
  /\ \E env \in Environments :
       IF parse_rpc_url(args, env).ok THEN Goto("schemas") /\ UNCHANGED <<args, query>>
       ELSE End("failed")
  /\ UNCHANGED <<asked, remembered, frames>>

\* The rest of parse_args, in its order.
parse_query_schemas ==
  At("schemas") /\ Step(parse_schemas(args), "aliases") /\ UNCHANGED <<asked, remembered, frames>>

parse_query_aliases ==
  /\ At("aliases")
  /\ \E swaps \in SetToSeqs(find_arg_aliases(args, query.schemas)) :
       LET swapped == apply_arg_aliases(args, swaps)
       IN IF swapped.ok THEN args' = swapped.val /\ Goto("partitions") /\ UNCHANGED query
          ELSE End("failed")
  /\ UNCHANGED <<asked, remembered, frames>>

parse_query_partitions ==
  /\ At("partitions")
  /\ Step(Then(parse_dims(args, query.schemas),
                LAMBDA p : p @@ [metas |-> cluster_datatypes(query.datatypes)]), "output")
  /\ UNCHANGED <<asked, remembered, frames>>

parse_output ==
  At("output") /\ Step(parse_file_output(args), "env") /\ UNCHANGED <<asked, remembered, frames>>

parse_env ==
  /\ At("env")
  /\ Step(IF parse_execution_env(args) THEN Ok(<<>>) ELSE Err, "freeze")
  /\ UNCHANGED <<asked, remembered, frames>>

\* freeze checks the query, and a dry run ends there.
freeze ==
  /\ At("freeze")
  /\ IF ~ is_valid(query.metas, query.dims) THEN End("failed")
     ELSE IF args.dry THEN End("done")
     ELSE Goto("collect") /\ UNCHANGED <<args, query>>
  /\ UNCHANGED <<asked, remembered, frames>>

\* One partition, with rows or without: what each task returns.
collect_partition ==
  /\ At("collect")
  /\ \E rows \in {0, 1} :
       frames' = [i \in DOMAIN query.metas |-> collect(query.metas[i], query, rows)]
  /\ End("done") /\ UNCHANGED <<asked, remembered>>

\* A second process in the same directory.
again ==
  /\ status # "running" /\ remembered # None /\ asked \notin Followups
  /\ asked' \in Followups /\ args' = asked'
  /\ pc' = "run" /\ status' = "running" /\ query' = [row_group_size |-> None] /\ frames' = <<>>
  /\ UNCHANGED remembered

Next ==
  \/ help \/ run \/ parse_source \/ parse_query_schemas \/ parse_query_aliases
  \/ parse_query_partitions \/ parse_output \/ parse_env \/ freeze \/ collect_partition
  \/ again

Spec == Init /\ [][Next]_vars

-----------------------------------------------------------------------------
(* Properties.                                                             *)

Past(steps) == pc \in steps
Parsed == Past({"output", "env", "freeze", "collect"})
\* The command says nothing of columns, sorting, types or events.
NoSchemaOptions == \A k \in {"columns", "include_columns", "exclude_columns", "sort", "u256_types",
                             "event_signature", "csv", "json", "hex"} : args[k] = Cli[k]

(***************************************************************************)
(* Every dataset is reached by its name and by each of its aliases, and by *)
(* no other: alias_map (datatypes/scalar.rs) fails EVERY lookup as soon as *)
(* two datasets share a name, so one wrong alias in one dataset breaks     *)
(* commands that never mention it.                                         *)
(***************************************************************************)
NamesAreUnambiguous ==
  \A d \in DOMAIN Datatype :
    (asked.datatype # <<>> /\ asked.datatype[1] \in Names(d) /\ NoSchemaOptions) =>
      /\ ~ (status = "failed" /\ pc = "schemas")
      /\ Parsed => query.datatypes[1] = d

(***************************************************************************)
(* Distinct datasets are each collected by exactly one task, however       *)
(* cluster_datatypes groups them: none is dropped, and none is written by  *)
(* a group and again on its own.                                           *)
(***************************************************************************)
EachDatatypeOneTask ==
  Parsed /\ IsInjective(query.datatypes) =>
    \A d \in ToSet(query.datatypes) :
      Cardinality({i \in DOMAIN query.metas : d \in datatypes(query.metas[i])}) = 1

(***************************************************************************)
(* The columns of every schema are the ones asked for: an exact list is    *)
(* taken as it is; otherwise the defaults and the included columns, in at  *)
(* least one schema each, less the excluded ones.                          *)
(***************************************************************************)
ColumnsAsAsked ==
  Past({"aliases", "partitions", "output", "env", "freeze", "collect"}) =>
    LET Got(d) == DOMAIN query.schemas[d].columns
        all == <<"all">> \in args.columns \cup args.include_columns
    IN /\ \A d \in DOMAIN query.schemas :
            IF args.columns # None THEN all \/ Got(d) = Named(args.columns)
            ELSE /\ Datatype[d].default \ Named(args.exclude_columns) \subseteq Got(d)
                 /\ all \/ Got(d) \cap Named(args.exclude_columns) = {}
       /\ args.columns = None =>
            Named(args.include_columns) \ {"all"} \subseteq UNION {Got(d) : d \in DOMAIN query.schemas}

(***************************************************************************)
(* A command for one dataset is refused for a missing dimension only when  *)
(* nothing that was given could have supplied it: the argument itself, the *)
(* function in the place of the call data, or one of its aliases.          *)
(***************************************************************************)
RefusedOnlyWhenMissing ==
  status = "failed" /\ pc = "freeze" /\ Len(query.datatypes) = 1 =>
    LET d == query.datatypes[1]
        Given(dim) == \/ asked[dim] # None
                      \/ dim = "CallData" /\ asked.function # None
                      \/ \E swap \in Datatype[d].arg_aliases : swap[2] = dim /\ asked[swap[1]] # None
    IN asked.datatype # <<>> => \E dim \in Datatype[d].required : ~ Given(dim)

(***************************************************************************)
(* A command that leaves columns, sorting and types alone never collects   *)
(* data only to fail at the frame: the default sort of each dataset is     *)
(* among its default columns, and none of it is a u256 column, which       *)
(* exists under its suffixed names only.  The two groups whose create_dfs  *)
(* wants the schema of every member are left out.                          *)
(***************************************************************************)
DefaultsMakeFrames ==
  status = "done" /\ pc = "collect" /\ NoSchemaOptions /\ query.time_dimension = "blocks" =>
    \A i \in DOMAIN frames :
      frames[i].ok \/ query.metas[i] \in {"state_diffs", "geth_state_diffs"}

(***************************************************************************)
(* Each dataset asked for gets its frame from the task that collects it,   *)
(* and a task makes no frame that nobody asked for, whatever the group it  *)
(* was put in.                                                             *)
(***************************************************************************)
EveryDatatypeGetsItsFrame ==
  status = "done" /\ pc = "collect" =>
    \A i \in DOMAIN frames :
      frames[i].ok =>
        DOMAIN frames[i].val = datatypes(query.metas[i]) \cap ToSet(query.datatypes)

(***************************************************************************)
(* A partition without rows is written with the same columns, of the same  *)
(* types, as one with rows, so the files of one query can be read          *)
(* together.  It holds of an event whose inputs have distinct names and    *)
(* types other than bytesN, arrays and tuples, and of every u256 type but  *)
(* decimal128.                                                             *)
(***************************************************************************)
Regular(inputs) ==
  /\ \A i \in DOMAIN inputs : inputs[i].kind \notin {"fixed_bytes", "array"}
  /\ IsInjective([i \in DOMAIN inputs |-> inputs[i].name])
EmptyFramesHaveTheSameColumns ==
  status = "done" /\ pc = "collect" /\ "d128" \notin ToSet(parse_u256_types(args.u256_types).val) /\
  (\A event \in args.event_signature : Regular(event.inputs)) =>
    \A i \in DOMAIN frames :
      collect(query.metas[i], query, 0) = collect(query.metas[i], query, 1)

(***************************************************************************)
(* Coalescing log datasets into one request changes no request's range:    *)
(* the group asks for as many blocks at a time as each member would alone. *)
(***************************************************************************)
CoalescingKeepsTheRange ==
  Parsed =>
    \A i \in DOMAIN query.metas :
      query.metas[i] = "log_events" =>
        \A d \in datatypes("log_events") \cap ToSet(query.datatypes) :
          inner_request_size(d, args) = inner_request_size("log_events", args)

(***************************************************************************)
(* --n-row-groups n writes a full chunk in at most n groups, also when n   *)
(* does not divide the chunk size.                                         *)
(***************************************************************************)
RowGroupsAsAsked ==
  Past({"env", "freeze", "collect"}) /\ args.row_group_size = None =>
    \A n \in args.n_row_groups :
      \A size \in query.row_group_size : size > 0 /\ size * n >= args.chunk_size

(***************************************************************************)
(* cli/src/remember.rs:5 says "can add `--dry` or any other additional     *)
(* arguments to override remembered arguments".                            *)
(***************************************************************************)
NewArgumentsOverride ==
  pc = "source" => \A k \in DOMAIN asked : asked[k] # Cli[k] => args[k] = asked[k]

(***************************************************************************)
(* A command is refused only for a reason it gives itself: its names are   *)
(* found, and a dimension it lacks was not given under any name.           *)
(***************************************************************************)
RefusedWithReason == NamesAreUnambiguous /\ RefusedOnlyWhenMissing

(***************************************************************************)
(* Regrouping into tasks keeps every dataset, its frame and its requests.  *)
(***************************************************************************)
TasksAsAsked == EachDatatypeOneTask /\ EveryDatatypeGetsItsFrame /\ CoalescingKeepsTheRange

(***************************************************************************)
(* What is collected can be written, and the files of a query read together. *)
(***************************************************************************)
FramesCanBeWritten == DefaultsMakeFrames /\ EmptyFramesHaveTheSameColumns

(***************************************************************************)
(* The files have the columns and the row groups the command names.        *)
(***************************************************************************)
OutputAsAsked == ColumnsAsAsked /\ RowGroupsAsAsked
=============================================================================
