# A TLA+ model of triodion

triodion extracts blockchain data over JSON-RPC into parquet, csv or json files. A
command names datatypes and ranges; the program cuts the ranges into partitions,
collects each partition with many concurrent requests and writes one file per
datatype and partition. This directory holds TLA+ modules of the parts where that
can go wrong, TLC configurations that check them, and TLAPS proofs.

Paths below are relative to `crates/freeze/src/` unless they start with `crates/`.

## 1. The system

| part | state it keeps | operations | interacts with |
|---|---|---|---|
| `freeze.rs` | payloads, chunk semaphore, `FreezeSummary`; the output directory | plan, spawn one task per payload, gather, report | the collector (one call per payload), `dataframes/export.rs`, `types/reports.rs` |
| collector, `types/collection/` | an mpsc channel of capacity 1, join handles, columns | spawn, send, transform, join, create frames | the datasets' `extract`/`transform`; returns frames or an error to `freeze` |
| multicall runner, `types/multicall.rs` | a stack of batches per task | aggregate, halve, demote to `extract` | the collector's channel; `Source::call2` |
| rpc-batch runner, `types/rpc_batch.rs`, and `Source::send_batch` | batch size learned during a call | send, halve the size, fall back per row | as above |
| state-override runner, `types/state_override.rs` | `OverrideSupport`: verdict, first-attempt permit, silent-failure counter, shared by the whole run; a stack of batches per task | gate, send, rule out, halve, drain, per row | as above; `Source::try_batched` shares the memo |
| native storage reader, ibid. and `types/sources.rs` | `storage_values_misses`, shared by the whole run | group, slice, pack, send, decode | in front of the extractor ladder |
| `Source`, `types/sources.rs` | request semaphore, rate limiter, retry policy | one method per RPC | everyone |
| error classes, `types/errors.rs` and the classifiers beside each ladder | none | contract refusal or node failure; throttle; size complaint; override refusal | the ladders branch on them |
| beacon client, `types/beacon.rs` | slot clock | slot arithmetic, blobs from the node or the archive, execution requests | blob and request datasets |
| chunks, partitions, parameters: `types/chunks/`, `types/partitions.rs`, `types/rpc_params.rs` | none | subchunk, align, partition by dimensions, cartesian product | `freeze` and the runners |
| input parsing, `crates/cli/src/parse/` | none; reads the growing chain | block ranges, timestamps, files, labels, the reorg buffer | the command line; `Source` |
| datasets, `datasets/`, and groups of them, `multi_datasets/` | columns | `extract`, `transform`, by block and by transaction | the collector; `Source` |
| dataset declarations, schemas, queries: `types/datatypes/`, `types/schemas.rs`, `types/queries.rs`, the `to_df` macro | none | names and aliases, column selection, grouping into tasks, frames | the command line; the collector |
| command line, `crates/cli/src/run.rs`, `args.rs`, `parse/` | `.triodion/` with one remembered command | load, merge, save, parse, refuse | `freeze` |
| argv rewriting, summaries, python bindings | none | | |

What is hard in it: many tasks share one memo whose three words are not locked
together; a permit must be given back on every exit of a function with many exits; a
verdict changes while others wait on it or have requests out; batches are halved,
drained and retried while parts of them have already been answered; errors travel by
two different routes (through the channel, or as a task's return value); tasks are
detached and go on sending; the process may die at any step of a write, and the next
run decides from what is on disk what is already done. On the way in, an expression is
resolved by several requests against a head that moves. On the way out, the same rows
can be asked for in several ways (alone or in a group, by block or by transaction, call
by call or through Multicall3, from geth or from parity, from a beacon node or an
archive), each with its own code, and a test of one says nothing of the others.

## 2. Modules

| module | models | remarks |
|---|---|---|
| `OverrideSupport` | the memo | one operator per atomic access; methods with two accesses are two operators |
| `ExtractorLadder` (extends it) | `extractor_batch_with_fallback`, `per_row`; `read_storage_slots`, `read_balances`, `try_batched` | an action is one access to the memo, or one await; chunks and callers run concurrently |
| `AllOrNothing` | what the collector promises | the abstract specification |
| `CollectPartition` | `fetch_partition`, the channel, `transform_channel`, `join_partition_handles`, `create_dfs`; both styles of task | refines `AllOrNothing` |
| `Freeze` | `freeze`, `get_payloads`, `freeze_partition(s)`, `df_to_file`, `write_report`; crash and re-run | the collector is one step of it: all frames, an error, or a panic |
| `NativeStorage` | the storage half of `state_override_collect_by_block`, `plan_native_chunks`, `native_storage_batch`, the miss counter | the extractor ladder is one step of it |
| `MulticallLadder` | `multicall_collect_by_block` for one batch, `multicall_batch_with_fallback`, `extract_by_eth_call` | batches share nothing, so one is followed, whichever |
| `SendBatch` | `Source::send_batch`, `send_one_batch`, `batch_with_fallback` | |
| `Results` | `Result` and `Option` | an option is a set of at most one element |
| `Chunks`, `Partitions` | `types/chunks/`, `types/partitions.rs` | operators; loops are recursive functions or folds |
| `BlockInput` (extends them) | `parse/blocks.rs`, `timestamps.rs`, `chunk_inputs.rs`, `partitions.rs` | an action is the code up to the next request; the chain grows in between, and any request may fail |
| `Node` | the methods of `Source` that read blocks, receipts, logs and traces | with what the node behind them holds |
| `LogDatasets`, `TraceDatasets`, `BlockDatasets`, `CallDatasets`, `BeaconClient` | `datasets/`, `multi_datasets/`, `types/beacon.rs`, `call_outcome` of `types/errors.rs` | `extract` and `transform` of each dataset as operators from a node's answers to rows |
| `Datasets` (extends the five) | | one action per family: the same input asked for in every way the program has |
| `DatasetTable` | the declarations of the 56 datasets | one definition per dataset |
| `Frames` | `types/schemas.rs`, the six groups, `types/dataframes/sort.rs`, what the `to_df` macro generates | |
| `Query` (extends `Frames`) | `run.rs`, `args.rs`, `remember.rs`, the rest of `parse/`, `types/queries.rs`, `meta.rs`, and one partition's frames | an action per step of `run` and `parse_args`, in their order, each of which may refuse; a second process in the directory |
| `ExtractorLadderProofs`, `FreezeProofs`, `CollectPartitionProofs`, `SendBatchProofs`, `MulticallLadderProofs`, `NativeStorageProofs`, `BlockInputProofs` | | the theorems of section 6 about the module each extends |
| `InductionLemmas` | | induction and recursion stated about sets; what `FlattenSeq` returns, where each part of it ends up, and when its parts are apart and cover a set |

`MC*` modules give the constants their values. In the component modules an operator
`Mut...` is a plausible wrong version of the definition below it; it belongs to no
specification and is there to show which property would notice.

How they fit: `Freeze` relies on "all frames or an error" (`AllOrNothing`), which
`CollectPartition` is checked to implement. `CollectPartition` relies on a batched
task that answers all its rows or fails, which is what `EveryRowOnce`,
`EveryRowItsOwnValue`, `RowsInOrder` and `ResultsInRequestOrder` say of the four
runners. `NativeStorage` uses `ExtractorLadder` as one step. `BlockInput` makes the
partitions `Freeze` is given and the parameter sets `CollectPartition` spawns tasks for;
`Query` makes the tasks (groups) and schemas. `Datasets` is what one of these tasks does
with its answers; the rows it makes are the rows the runners count.

Abstractions. A row is its index, a payload or a response is what it is the answer to,
a failure is the class the code puts it in. What the network does is a
nondeterministic choice over these classes. Labels and paths are model values; two
partitions may share a label. Report contents, progress bars and printing are left out.
In the datasets, addresses, hashes and amounts are small values, a row keeps the columns
that are computed, filtered by or matched on (columns copied from a field of the answer
are not told apart), and a 32-byte word is three numbers, as the decoders look at its
parts. In `Query` a dimension is given or not, and its text is hexadecimal or not.

Where several facts belong to one question, the property a run checks is the conjunction
of named parts (`AnswerIsTrue`, `RequestsAreExact`, `BeaconRowsAreTrue`, ...); each part
has its own definition and comment.

## 3. Runs

| run | what it shows |
|---|---|
| `ladder_safety` | two chunks and a caller on one memo, every outcome, per-row errors, a counter that wraps at 4: the first attempt is serialised, the permit is never leaked, every row is produced once, the verdict latches |
| `ladder_doomed` | an endpoint on which no batch works: every task still answers, and the requests wasted stay within `SilentFailureLimit - 1` plus one per chunk |
| `collect` | three tasks: frames are whole or there is an error, the error is never the symptom, everything returns, `AllOrNothing` is implemented |
| `freeze_safety` | two commands over one directory with a crash at any step: only whole files under final names, a summary whose lists add up to what was asked for (a panicked task has no partition in them), no run without a record, lone files kept |
| `freeze_tasks` | four partitions on two permits, two with one file name: no shared temporary file, and freeze returns |
| `native_values` | every small grouping, slicing and packing against honest and dishonest answers: each row gets its own value, requests are servable and full |
| `multicall` | rows in order, null exactly for refusals, strictness at every size, at most 2n - 1 requests, termination |
| `send_order` | answers in request order, logarithmic discovery of the cap, any cap is read, termination |
| `plan` | every kind of block and timestamp expression, with alignment, chunk sizes and counts, a reorg buffer, files and labels, parsed while the chain grows: the requests name each block exactly as often as the command does, blocks are old enough against any head, open ends reach the head, times are covered, and parsing ends |
| `query` | every dataset under every name, pairs of grouped ones, every pair of schema options, choices of dimensions, output options, help, and a remembered command followed by another: refusals have a reason, every dataset has one task and one frame, columns and row groups are the ones asked for, what is collected can be written |
| `datasets` | two transactions of a block, in all the shapes the code tells apart, asked for in every way: the ways agree with each other and with the chain, except exactly where section 5 says; a node that fails is never read as data |
| `query_remember` | an argument added to a remembered command does not override it (section 5) |

Bounds. Two chunks are enough for one to wait on, overtake or settle the verdict for
the other, and the caller takes the gate several times; two rows let a chunk be halved
once, and three silent failures need both chunks or one chunk's whole cascade. The
counter's modulus is 4 in `ladder_safety` so that it wraps, 256 in `ladder_doomed` so
that it does not. Three tasks over a channel of one let one be received, one wait for
room and one be detached. Two runs let the second one meet what the first left;
a group of two frames lets one be renamed and the other fail. In `native_values` the
slot cap is small enough that a contract is split over items of one request and of two.
`SendBatch` takes an odd multiple of two as default size so that rounding shows.

In `plan` a chain of at most 6 blocks (`MaxHead = 5`) lets a range of three chunks have a
remainder and the head pass the end of a range while it is parsed; block times are
distinct, as the search of `timestamps.rs` requires (otherwise it returns whichever
block of a time it probes first, `timestamps.rs:210-216`, and what `RangesCovered` says of
times is stated for distinct ones). In `datasets` two transactions are enough for one to take the other's
receipt, deployer, failure or diff, and three levels of calls for a failure to reach a
grandchild; state inputs range over all triples of the accounts there are. Every column a
receipt fills is asked for on its own, so that one missing from the list that decides
whether receipts are read would show. Calls take one unit of gas or 40,000, against
35,000 and 100,000 a request may use: one takes all there is, or more than
`PROBE_GAS_LIMIT` and still answers in a batch; with 3 units, nine probes run dry. `query` takes all
datasets but combines options over seven lists of them, chosen to have u256 columns,
decoded events, groups and several datasets at once; dimensions are left out of every
dataset in turn, without options.

Deadlock is checked in every run but `datasets`, `query` and `query_remember`, where the
process ends and nothing follows; elsewhere a finished system stutters explicitly.

## 4. Fairness

tokio polls a woken future again, and every request ends in an answer, an error or the
client's timeout: weak fairness of each task's and the collector's steps. Tokio's
semaphores and channels serve their waiters in order, so a task that keeps finding the
chunk permit, the request permit or the channel's room taken is nevertheless served:
strong fairness of `acquire` in `Freeze` and of `Request` and `Send` in
`CollectPartition`. `ExtractorLadder` does not need it for the gate. Nothing is assumed
of the endpoint beyond that it answers something. `plan` assumes weak fairness of the
parser's step for the same reason, and nothing of the chain's growth: `CommandParsed`
holds although the head may move between any two requests. A new command and a crash are never
assumed to happen.

## 5. Where code and documentation differ

Found by a run that expects a violation:

- `query_remember`: `merge_with_precedence` (`crates/cli/src/args.rs:497-517`, called at
  `run.rs:53`) lets every remembered value that is not the zero of its field overwrite
  what was typed; `remember.rs:5` says additional arguments "override remembered
  arguments". The same comparison loses a remembered value that is the zero, and a
  command is remembered before it is known to be valid.

Pinned down by a property of a passing run, which says exactly where code and
documentation part and would fail if they parted anywhere else:

- `GethDiffsAreExact`: geth leaves a field that did not change out of `post`, and the
  code writes the lack as 0 (`multi_datasets/geth_state_diffs.rs:147-165`, 249-259). An
  account whose nonce alone changed and whose balance is 3 gets the balance row "3 to 0".
  `book/datasets/dataset_reference.md:49-52` calls these rows the changes. There is one such row for
  every field that stayed (balance, nonce or code) of every account a transaction touched,
  none for a slot, and all other rows are the true changes;
- `EmptyMeansToldSo`: `is_not_found` searches the error text for "returned 404", and the
  text has the first 200 characters of the body in it (`types/beacon.rs:453-456`, 695-697):
  a 500 whose body quotes "returned 404" is taken for a 404, and with no archive the
  block has no blobs and no error. The comment at 687-688 says that "a 404 inside a
  *response body* cannot be mistaken for a 404 status";
- `PathsAgree`: `book/basic_usage/request_batching.md:8-11` says that batching changes "never the
  results themselves". It does where the gas of a batch is gone before a call (null in the
  batch only, as `contract_interfaces.rs:265-297` admits), where a probe takes more than
  `PROBE_GAS_LIMIT` (null alone only, 184 and 202-205), where an `eth_call` answers without
  data (`eth_calls.rs:90-112`, null in the batch only), and where a contract refuses in
  words `errors.rs` does not know (an error alone, null in the batch);
- `SameRows`: where an address of more than 32 bytes makes a log dataset on its own an
  error, the group it is collected in has no rows for it and no error;
- `ColumnsKeepTheirValues`: `--exclude-failed` without any column that needs a receipt is
  an error (`transactions.rs:324`), as nothing has fetched the receipt to tell by;
- `RequestsUnderTheirBlock`: requests of a beacon block that names no execution block are
  filed under the block asked about without a check (`types/beacon.rs:578-580`).

Met while modelling; the model does what the code does, and no run is about it.

Runners and `freeze`:

- the gate is dropped before the verdict is stored (`types/state_override.rs:1066`,
  1075), so an endpoint without overrides can cost one request per waiting task, not
  "one request" (79-81); a verdict that falls between the recheck and the first pop is
  drained at 1053-1059 with the permit held, against 1035-1040; three size-shaped
  failures rule overrides out (657) though 84-85 say only a refusal does;
- a success in flight resets the miss counter (`types/sources.rs:1116`) after the fast
  path was "abandoned for the rest of the process" (1074); a node without
  `eth_getStorageValues` costs one request per task in flight, not "three cheap failures
  total" (1080); one item's error, or a null, fails the batch of
  `trace_transactions_batch` (267), whose comment (331-334) promises an empty `Vec`;
- a payload is skipped only when all its files exist (`freeze.rs:103`);
  `book/intro/concepts.md:73` says a file that exists is skipped;
- the summary's lists hold partitions without a datatype, and a task that panicked is an
  entry without a partition (`freeze.rs:167`), which is all `SummaryIsTrue` can go by. The
  report is worse off: it lists the paths of all datatypes for each partition listed, those
  of an errored datatype under `completed_paths` too if another one of its partition was
  completed, and leaves out entries without a partition (`types/reports.rs:96-121`). Its
  contents are not modelled.

Block input:

- an aligned range whose last block is a multiple of the chunk size ends in a file of
  one block (`types/chunks/number_chunk.rs:76`), which a longer run has no file for:
  `concepts.md:70-71` says aligned files line up;
- `-1000:7000` is 6001..7000, not 6000:7000 (`crates/cli/src/run.rs:125`); the reorg
  buffer is not applied to files (`concepts.md:77`);
- without `--blocks`, one dataset that reads state makes all datasets of the command
  collect the latest block only (`get_default_block_chunks`);
- `--align` with `--n-chunks` over a range that is aligned away, a step of 0 and
  `--n-row-groups 0` panic.

Datasets:

- `LogEvents` by transaction ignores dimensions that the datasets apply on their own
  (`multi_datasets/log_events.rs:51-58`; `erc20_transfers.rs:100-120`), and
  `CallTraceDerivatives` ignores the address filters: `CoalescedAgrees` is stated for
  requests without them;
- with `--exclude-failed`, the address filter comes first and may take away the root
  trace of a failure, so its subcalls stay;
- a beacon node that refuses and an archive that does not know the block make no rows
  and no error (`types/beacon.rs:474-476`); `EmptyMeansToldSo` counts the archive as having
  said so;
- `FourByteCounts` by block skips a `NoopTracer` result but not its hash, so later
  results take the wrong transaction; it is left out of `ByTransactionAgrees`;
- groups take what to include from one member's schema (`geth_state_diffs.rs:80`,
  `state_reads.rs`), so hashes are compared apart (`Bare`); `StateDiffs` and
  `GethStateDiffs` fail, or panic, when only some members are asked for.

Schemas and frames:

- a sort column that is excluded or not listed fails the frame after everything was
  collected; `--columns` and `--include-columns all` ignore `--exclude-columns`;
- an event with a `bytesN`, array or tuple input, or two of one name, makes different
  columns, or an error, for a partition without rows (`crates/to_df/src/lib.rs`, "Write
  columns even if there are no values decoded"), and `d128` columns are dropped when
  there are rows: `EmptyFramesHaveTheSameColumns` is stated for the others;
- `logs events` names one dataset twice and collects it twice; an alias for one dataset
  may take the dimension another one needs; with `--address` and `--to-address` the
  order of a `HashMap` decides.

## 6. Proofs

Each `*Proofs` module proves its theorems for every value of the constants that the
named assumptions of the model allow. In each the invariants the runs check are not
inductive; the strengthening (`IInv` or the name below) was checked by TLC on the run's
instance first, and the proof has one step per action and, where an action disturbs
several, one per conjunct.

**Extractor ladder** (any tasks, rows, limit and modulus: `TasksAssumption`,
`ChunksAssumption`, `CounterAssumption`, `LadderAssumption`). `TypeOK` (by proof only),
`FirstAttemptGated`, `NoLeakedPermit` and `EveryRowOnce` are invariants, `VerdictLatches`
an action property. `IInv` adds `GateInv` (at each control point between acquire and
release, who holds the permit and which requests may be first ones) and `SliceInv` and
`RowsInv` (the rows of the stack, of the batch in hand, of the per-row read and the rows
already produced partition the task's rows, with the batches on the stack disjoint).
`DoomedCost`, the bound on wasted requests, is proved from `CostInv`: every request is
charged to a failure that was counted or to the chunk that has it out, and a chunk that
brings the counter to the limit keeps its charge until RULED_OUT is stored. The proof
attempt showed that the bound needs `SilentFailureLimit + Cardinality(Chunks)` to fit the
counter: with more chunks than that between the increment and the store, the `u8` could
wrap and batches would be tried again; the property says so.

**Freeze** (any datatypes and labels, any finite groups and partitions, `FreezeAssumption`; any number
of chunk permits and of commands, a crash at any step). `TypeOK`, `FilesAreWhole` and
`SummaryIsTrue` are invariants, `RunsAccountedFor` and `LoneFilesKept` action properties.
`FilesAreWhole` rests on the temporary file still being whole when it is renamed, hence
on no other task having truncated it: `Apart` (the tasks of a command have disjoint
paths, which is what the collision test of `get_payloads` buys) and `OwnPaths` (a task
touches one path at a time, its own). `LoneFilesKept` adds `LoneInv`: what a task may
still write does not hold a lone file that is there. `SummaryIsTrue` adds `SummaryInv`:
the plan partitions what was asked for, the aggregation lists each joined task once, and
what a task has passed over it wrote in this run. The summary's lists are counted per
partition, as they name no datatype; that the counts add up to the datatypes asked for is
`ListOf` of disjoint sets of tasks (`FS_CardinalityType` and its like of
`FiniteSetTheorems`), and a task that panicked is counted under `unnamed` alone. `RunsAccountedFor` needs `RecordKept`:
`report_remove` follows a whole report.

**Collector** (any number of tasks, rows and permits). `AnswerIsTrue` is an invariant and
`Spec` implements `AllOrNothing`, by step simulation. `ControlInv` relates the collector's
control point to the tasks that may still be alive; `MessagesInv` says where each row is:
a task's rows are those it still holds, those in the channel and those in the columns, in
this order and each once, and an error is in the task's hands or the channel until it is
what the collector returns. Without it nothing excludes a frame that misses a row whose
message was overtaken.

**Source::send_batch** (any number of calls, default size and cap).
`ResultsInRequestOrder` and `CapIsFound` are invariants. `SizeInv` is the potential
argument: halving rounds up, so what it halves is the distance of the size from one, and
after k refusals that is at most (DefaultSize - 1) / 2^k.

**Multicall runner** (any batch, budget and number of calls per row). `RowsInOrder`,
`NullsAreTrue` and `RequestsAreBounded` are invariants. `LadderInv` says that the stack,
read from its top, and the batch in hand are runs that follow one another from the first
unanswered row to the last, which is why the left half must be pushed last; `CountInv`
charges each request to the row it answers or to the run it adds.

**Native storage reader** (any finite set of groups, any group size, batch size, slot cap
and miss limit: `NativeAssumption`; the answers are the kinds of `AnswerKinds`).
`EveryRowItsOwnValue` and `RequestsFitTheNode` are invariants. The first one is about
indices: `even_chunks` cuts a group by division and remainder, the planner packs the
slices into requests, the request map concatenates the slots of one contract over the
items of the request, and the decoder walks each contract's values with a cursor. The
argument follows the code: the slices of a group meet end to end (`EvenCuts`); so the
work items are apart and cover the batched rows (`WorkIs`); each turn of the packing loop
keeps the requests closed so far apart, covering what was packed, within the cap or a
single item, and without room for the next item (`PackStep`, `PackBlockIs`, `PlanIs`); an
answer that is not the one asked for has a missing contract or a wrong number of values
and is refused as a whole (`OnlyTheAnswer`); and the cursor stands where the
concatenation placed the item's first slot (`CursorIsRight`), so that what is decoded is
the row's own (`DecodedIsOwn`). `IInv` is `TypeInv`, `PlanInv` (the above, about the
plan), `SentFits` (a request that is out is within the cap) and `OutInv`: each row has
its value if its request is done and none before that, which one request per row makes
inductive over any order of the tasks (`Deliver`).

**Block input** (any chain and growth of it, any expressions and options the parser
accepts: `ChainAssumption`, `CommandsAssumption`). `OldEnough` and `RangesCovered` are
invariants. `EndsHeld` says what the resolved ends mean between two requests: the times of
the token, then a block that was right for some head between the command's start and now.
With distinct times the later head can only add blocks after it, which gives
`TimesCovered`; `SearchFinds` proves that the binary search of `block_at_timestamp` ends
and returns the last block not after the time, or block 0. `FilterOld`, `RangeToChunks`,
`SliceChunks` and `Align` say what the recursive functions of `Chunks` and `BlockInput`
return. `ChunksKeepBlocks` is an invariant too (`ChunksTheorem`): a range is cut into a
run of spans that meet end to end and start whole chunks apart (`Run`, `RangeToChunks`),
a list into slices that concatenate to it (`SliceChunks`, by `FlatOfCuts`), so the blocks
come out in order and as often as they went in, whether cut by size or by count; align
only drops blocks and its ranges start at multiples (`Align`, `Multiple`). `KeptInv` adds
that only a reorg buffer takes chunks away afterwards. Writing the proof showed that an open range of times reaches the head only if
times are distinct; `OpenRangesReachTheHead` has that hypothesis now.

Induction over data. The library's induction theorems take operators, which the provers
cannot instantiate. `InductionLemmas` states the same about sets: a set of indices
without a first element is empty (`NoFirst`), and a recursive definition whose calls
decrease a bounded measure has a solution (`MeasureRecursion`), so that the `CHOOSE` it
abbreviates can be reasoned about.

Only model-checked: liveness (the prover does not handle fairness or `ENABLED`);
`EveryRequestOnce`, the second half of `RequestsAreExact`, which counts through `FoldLeft`
and `SelectSeq` over the dimensions, operators with an operator argument that the prover
cannot expand; `Query`, which ranges
over a fixed table of 56 datasets, so that TLC's enumeration of it is most of the
argument; and `Datasets`, which reaches the recursive operators of `TraceDatasets` (call
frames and opcodes nest).

## 7. Not modelled, and the plan

Next, in this order:

1. Proofs: `EveryRequestOnce` of `BlockInput`, with `param_sets` and
   `partition_with_labels` written as recursive functions over the dimensions.
2. `ErrorClasses`: the text matching of `is_throttle`, `batch_may_shrink_to_fit`,
   `batch_too_large`, `override_unavailable`, and that the classes the ladders assume
   are disjoint where they must be.
3. `StateReader`: request, sentinel and decoding of one extractor call, and which rows
   would shadow the override.
4. The report's contents: `serialize_summary` lists the paths of all datatypes for each
   completed partition.

Left out for good: bytecode and ABI encoding, the values polars holds, columns that are
copied from an answer (data, done by libraries), the retry layer and rate limiter
(alloy, governor), clap and the rewriting of argv for it, metric suffixes of numbers,
labels and directory names, printing and summaries, the python adapters. Two processes
over one output directory share a temporary name; the code has nothing to prevent it,
and `Freeze` has one process at a time.
