--------------------------- MODULE TraceDatasets ---------------------------
(***************************************************************************)
(* The datasets made of traces, state diffs and prestates, and the three   *)
(* MultiDatatypes that share a request among them.                         *)
(*                                                                         *)
(* A trace is [tx, path, kind, from, to, created, error]: tx is 0 for a    *)
(* reward, path the trace address, created the set of the contract made.   *)
(* The others answer per transaction: [block, txs, results], where block   *)
(* and the hashes are options and txs goes with results.                   *)
(***************************************************************************)
EXTENDS Node

Zero == 0

-----------------------------------------------------------------------------
(* Traces                                                                  *)

\* filter_traces_by_from_to_addresses: a reward has no sender here, a creation no receiver.
filter_traces_by_from_to_addresses(traces, from, to) ==
  SelectSeq(traces, LAMBDA t :
    /\ from # {} => t.kind # "reward" /\ t.from \in from
    /\ to # {} => t.kind # "create" /\ t.to \in to)

\* Mutant: the traces below a failed one are kept.
Mutfilter_failed_traces(traces) == SelectSeq(traces, LAMBDA t : ~t.error)

\* The loop of filter_failed_traces; failed is the trace address of the last failure, if any.
filter_failed_traces(traces) ==
  LET step(acc, t) ==
        LET failed == IF t.path = <<>> THEN {} ELSE acc.failed
            below == \E f \in failed : IsPrefix(f, t.path)
        IN IF below THEN [acc EXCEPT !.failed = failed]
           ELSE IF t.error THEN [acc EXCEPT !.failed = {t.path}]
           ELSE [failed |-> {}, kept |-> Append(acc.kept, t)]
  IN FoldLeft(step, [failed |-> {}, kept |-> <<>>], traces).kept

\* process_action: who acts and on whom, and what the result adds.
process_action(t) ==
  [from |-> t.from,
   to |-> IF t.kind \in {"create", "reward"} THEN {} ELSE {t.to}]
process_result(t) == IF t.kind = "create" /\ ~t.error THEN t.created ELSE {}

process_traces(traces) ==
  [i \in DOMAIN traces |->
     [tx |-> traces[i].tx, path |-> traces[i].path, kind |-> traces[i].kind,
      action |-> process_action(traces[i]), address |-> process_result(traces[i]),
      error |-> traces[i].error]]

\* trace_calls: the traces of a call that is not in the chain.
process_transaction_traces(traces, contract, call_data) ==
  [i \in DOMAIN traces |->
     [index |-> i - 1, path |-> traces[i].path, action |-> process_action(traces[i]),
      address |-> process_result(traces[i]), contract |-> contract, call_data |-> call_data]]

\* The creations that succeeded, numbered, with the sender of their transaction's first trace.
process_contracts(traces) ==
  LET step(acc, t) ==
        LET deployer == IF t.path # <<>> THEN acc.deployer
                        ELSE IF t.kind = "suicide" THEN t.to ELSE t.from
        IN [deployer |-> deployer,
            rows |-> acc.rows \o
              [n \in 1 .. Cardinality(process_result(t)) |->
                 [tx |-> t.tx, create_index |-> Len(acc.rows), contract |-> process_result(t),
                  deployer |-> deployer, factory |-> t.from]]]
  IN FoldLeft(step, [deployer |-> Zero, rows |-> <<>>], traces).rows

\* Every trace is a transfer; a creation that failed goes to the zero address.
process_native_transfers(traces) ==
  [i \in DOMAIN traces |->
     LET t == traces[i]
     IN [tx |-> t.tx, transfer_index |-> i - 1,
         from |-> IF t.kind = "reward" THEN Zero ELSE t.from,
         to |-> IF t.kind = "reward" THEN t.from
                ELSE IF t.kind = "create" THEN IF process_result(t) = {} THEN Zero
                                               ELSE CHOOSE a \in t.created : TRUE
                ELSE t.to]]

\* transform of the three of them.
kept_traces(traces, exclude_failed) == IF exclude_failed THEN filter_failed_traces(traces) ELSE traces

\* A request is [number or hash, from, to]; from and to are sets of at most one address.
between(response, p) ==
  Then(response, LAMBDA traces : filter_traces_by_from_to_addresses(traces, p.from, p.to))

traces_by_block(node, p, exclude_failed) ==
  Then(between(trace_block(node, p.number), p), LAMBDA t : process_traces(kept_traces(t, exclude_failed)))
traces_by_transaction(node, p, exclude_failed) ==
  Then(between(trace_transaction(node, p.hash), p), LAMBDA t : process_traces(kept_traces(t, exclude_failed)))

contracts_by_block(node, p, exclude_failed) ==
  Then(trace_block(node, p.number), LAMBDA t : process_contracts(kept_traces(t, exclude_failed)))
contracts_by_transaction(node, p, exclude_failed) ==
  Then(trace_transaction(node, p.hash), LAMBDA t : process_contracts(kept_traces(t, exclude_failed)))

native_transfers_by_block(node, p, exclude_failed) ==
  Then(between(trace_block(node, p.number), p),
       LAMBDA t : process_native_transfers(kept_traces(t, exclude_failed)))
native_transfers_by_transaction(node, p, exclude_failed) ==
  Then(between(trace_transaction(node, p.hash), p),
       LAMBDA t : process_native_transfers(kept_traces(t, exclude_failed)))

\* CallTraceDerivatives: one request for all; the addresses are not looked at.
process_call_trace_derivatives(active, traces, exclude_failed) ==
  LET kept == kept_traces(traces, exclude_failed)
  IN [dt \in active |-> CASE dt = "traces" -> process_traces(kept)
                         [] dt = "contracts" -> process_contracts(kept)
                         [] dt = "native_transfers" -> process_native_transfers(kept)]
call_trace_derivatives_by_block(active, node, p, exclude_failed) ==
  Then(trace_block(node, p.number), LAMBDA t : process_call_trace_derivatives(active, t, exclude_failed))
call_trace_derivatives_by_transaction(active, node, p, exclude_failed) ==
  Then(trace_transaction(node, p.hash), LAMBDA t : process_call_trace_derivatives(active, t, exclude_failed))

-----------------------------------------------------------------------------
(* address_appearances                                                     *)

\* The relationships of a transaction as such: its fee, its token transfers, its two ends.
process_first_transaction(author, t, logs) ==
  <<<<author, "miner_fee">>>>
    \o FlattenSeq([i \in DOMAIN logs |->
         IF Len(logs[i].topics) < 3 \/ logs[i].topics[1] # "Transfer"
              \/ (logs[i].size = 0 /\ Len(logs[i].topics) # 4)
         THEN <<>>
         ELSE <<<<logs[i].topics[2], "from">>, <<logs[i].topics[3], "to">>>>])
    \o (CASE t.kind = "call" -> <<<<t.from, "tx_from">>, <<t.to, "tx_to">>>>
          [] t.kind = "create" -> <<<<t.from, "tx_from">>>>
          [] OTHER -> <<>>)
    \o [n \in 1 .. Cardinality(process_result(t)) |-> <<CHOOSE a \in t.created : TRUE, "tx_to">>]

process_trace(t) ==
  (CASE t.kind = "call" -> <<<<t.from, "call_from">>, <<t.to, "call_to">>>>
     [] t.kind = "create" -> <<<<t.from, "factory">>>>
     [] t.kind = "suicide" -> <<<<t.from, "suicide">>, <<t.to, "suicide_refund">>>>
     [] t.kind = "reward" -> <<<<t.from, "author">>>>)
    \o [n \in 1 .. Cardinality(process_result(t)) |-> <<CHOOSE a \in t.created : TRUE, "create">>]

\* Rewards belong to no transaction and are passed over.
process_appearances(author, logs, traces) ==
  LET logs_of(tx) == SelectSeq(logs, LAMBDA l : l.tx = tx)
      rows(tx, s) == [i \in DOMAIN s |-> <<tx>> \o s[i]]
      step(acc, t) ==
        IF t.tx = 0 THEN acc
        ELSE [current |-> t.tx,
              rows |-> acc.rows
                \o (IF t.tx = acc.current THEN <<>>
                    ELSE rows(t.tx, process_first_transaction(author, t, logs_of(t.tx))))
                \o rows(t.tx, process_trace(t))]
  IN FoldLeft(step, [current |-> 0, rows |-> <<>>], traces).rows

\* Three reads of the block; the author is the block's.
appearances_by_block(node, number) ==
  LET block == get_block(node, number)
      logs == get_logs(node, [range |-> <<number, number>>, address |-> {}, topics |-> <<>>])
      traces == trace_block(node, number)
  IN IF block.ok /\ traces.ok THEN Ok(process_appearances(block.val.author, logs, traces.val)) ELSE Err

appearances_by_transaction(node, hash) ==
  LET number == get_transaction_block_number(node, hash)
      logs == get_transaction_logs(node, hash)
      traces == trace_transaction(node, hash)
  IN IF ~number.ok \/ ~logs.ok \/ ~traces.ok THEN Err
     ELSE Then(get_block(node, number.val),
               LAMBDA block : process_appearances(block.author, logs.val, traces.val))

-----------------------------------------------------------------------------
(* Traces with a tree of their own                                         *)

\* geth_calls: a frame, then its calls in order, each with its place as address.
RECURSIVE process_call_frame(_, _)
process_call_frame(frame, path) ==
  <<[from |-> frame.from, path |-> path]>>
    \o FlattenSeq([s \in DOMAIN frame.calls |->
         process_call_frame(frame.calls[s], Append(path, s - 1))])

\* vm_traces: an instruction, then those of the call it makes.
RECURSIVE add_ops(_)
add_ops(ops) ==
  FlattenSeq([i \in DOMAIN ops |-> <<ops[i].pc>> \o add_ops(ops[i].sub)])

\* geth_opcodes: the data returned goes with the last instruction.
process_opcodes(ops, return_value) ==
  [i \in DOMAIN ops |-> [op |-> ops[i], return_data |-> IF i = Len(ops) THEN {return_value} ELSE {}]]

\* A transaction's result with its number among those of the response: zip stops at the shorter.
zip(response) ==
  [i \in 1 .. Min({Len(response.txs), Len(response.results)}) |->
     [block |-> response.block, tx |-> response.txs[i], index |-> i - 1, result |-> response.results[i]]]

\* The rows of each transaction, under its block, hash and number.
rows_by_transaction(response, rows(_)) ==
  LET zipped == zip(response)
  IN FlattenSeq([i \in DOMAIN zipped |->
       LET own == rows(zipped[i].result)
       IN [j \in DOMAIN own |->
            [block |-> zipped[i].block, tx |-> zipped[i].tx, index |-> zipped[i].index, row |-> own[j]]]])

process_geth_calls(response) == rows_by_transaction(response, LAMBDA frame : process_call_frame(frame, <<>>))
\* The hashes come with the block's number.
geth_calls_by_block(node, number, schema) ==
  Then(geth_debug_trace_block_calls(node, number, "block_number" \in schema), process_geth_calls)
geth_calls_by_transaction(node, hash, schema) ==
  Then(geth_debug_trace_transaction_calls(node, hash, "block_number" \in schema), process_geth_calls)

process_geth_opcodes(response) ==
  rows_by_transaction(response, LAMBDA frame : process_opcodes(frame.ops, frame.return_value))
geth_opcodes_by_block(node, number, schema) ==
  Then(geth_debug_trace_block_opcodes(node, number, "block_number" \in schema), process_geth_opcodes)
geth_opcodes_by_transaction(node, hash, schema) ==
  Then(geth_debug_trace_transaction_opcodes(node, hash, "block_number" \in schema), process_geth_opcodes)

\* Every trace has the one hash of the response, and a number of its own.
process_vm_traces(response) ==
  FlattenSeq([i \in DOMAIN response.results |->
    LET ops == UNION {Some(add_ops(vm)) : vm \in response.results[i].vm_trace}
    IN IF ops = None THEN <<>>
       ELSE [j \in DOMAIN Unwrap(ops) |->
              [block |-> response.block, tx |-> response.tx, index |-> i - 1, row |-> Unwrap(ops)[j]]]])
vm_traces_by_block(node, number) == Then(trace_block_vm_traces(node, number), process_vm_traces)
vm_traces_by_transaction(node, hash) == Then(trace_transaction_vm_traces(node, hash), process_vm_traces)

\* The counts of a frame are a sequence of <<signature, size, count>>, readable or not.
parse_signature_size(pair) == IF Len(pair) = 3 THEN Ok(pair) ELSE Err
process_four_byte_counts(response) ==
  LET zipped == zip(response)
  IN IF \A i \in DOMAIN zipped : \A j \in DOMAIN zipped[i].result : parse_signature_size(zipped[i].result[j]).ok
     THEN Ok(rows_by_transaction(response, LAMBDA counts : counts))
     ELSE Err
four_byte_counts_by_block(node, number, schema) ==
  LET response == geth_debug_trace_block_4byte_traces(node, number, "transaction_hash" \in schema)
  IN IF response.ok THEN process_four_byte_counts(response.val) ELSE Err
four_byte_counts_by_transaction(node, hash, schema) ==
  LET response == geth_debug_trace_transaction_4byte_traces(node, hash, "block_number" \in schema)
  IN IF response.ok THEN process_four_byte_counts(response.val) ELSE Err

process_javascript_traces(response) == rows_by_transaction(response, LAMBDA value : <<value>>)
javascript_traces_by_block(node, number, schema, js_tracer) ==
  IF js_tracer = None THEN Err
  ELSE Then(geth_debug_trace_block_javascript_traces(node, number, "transaction_hash" \in schema),
            process_javascript_traces)
javascript_traces_by_transaction(node, hash, schema, js_tracer) ==
  IF js_tracer = None THEN Err
  ELSE Then(geth_debug_trace_transaction_javascript_traces(node, hash, "block_number" \in schema),
            process_javascript_traces)

-----------------------------------------------------------------------------
(* State diffs: a map from addresses to the deltas of their balance, nonce *)
(* and code, and of their slots.  A value of 0 stands for no code too.     *)

\* The change a delta tells of, none for a value that stays.
change(d) == IF d.kind = "unchanged" THEN None ELSE Some(<<d.from, d.to>>)

process_balance_diff(diff) == change(diff.balance)
process_nonce_diff(diff) == change(diff.nonce)
\* An account added without code makes no row.
process_code_diff(diff) ==
  IF diff.code.kind = "added" /\ diff.code.to = Zero THEN None ELSE change(diff.code)

\* One row of an account, if any.
account_diffs(response, row(_)) ==
  rows_by_transaction(response, LAMBDA trace :
    LET addresses == SetToSeq({a \in DOMAIN trace.state_diff : row(trace.state_diff[a]) # None})
    IN [i \in DOMAIN addresses |->
          [address |-> addresses[i], change |-> Unwrap(row(trace.state_diff[addresses[i]]))]])

process_balance_diffs(response) == account_diffs(response, process_balance_diff)
process_code_diffs(response) == account_diffs(response, process_code_diff)
process_nonce_diffs(response) == account_diffs(response, process_nonce_diff)

process_storage_diffs(response) ==
  rows_by_transaction(response, LAMBDA trace :
    LET slots == SetToSeq({<<a, s>> \in UNION {{a} \X DOMAIN trace.state_diff[a].slots :
                                                 a \in DOMAIN trace.state_diff} :
                             change(trace.state_diff[a].slots[s]) # None})
    IN [i \in DOMAIN slots |->
          [address |-> slots[i],
           change |-> Unwrap(change(trace.state_diff[slots[i][1]].slots[slots[i][2]]))]])

balance_diffs_by_block(node, number, schema) ==
  Then(trace_block_state_diffs(node, number, "transaction_hash" \in schema), process_balance_diffs)
balance_diffs_by_transaction(node, hash) == Then(trace_transaction_state_diffs(node, hash), process_balance_diffs)

code_diffs_by_block(node, number, schema) ==
  Then(trace_block_state_diffs(node, number, "transaction_hash" \in schema), process_code_diffs)
code_diffs_by_transaction(node, hash) == Then(trace_transaction_state_diffs(node, hash), process_code_diffs)

nonce_diffs_by_block(node, number, schema) ==
  Then(trace_block_state_diffs(node, number, "transaction_hash" \in schema), process_nonce_diffs)
nonce_diffs_by_transaction(node, hash) == Then(trace_transaction_state_diffs(node, hash), process_nonce_diffs)

storage_diffs_by_block(node, number, schema) ==
  Then(trace_block_state_diffs(node, number, "transaction_hash" \in schema), process_storage_diffs)
storage_diffs_by_transaction(node, hash) == Then(trace_transaction_state_diffs(node, hash), process_storage_diffs)

\* schemas maps the members asked for to their columns.
AnyHas(schemas, column) == \E dt \in DOMAIN schemas : column \in schemas[dt]

\* StateDiffs fills all four, so the schema of each must be there.
process_state_diffs(response, schemas) ==
  IF DOMAIN schemas # {"balance_diffs", "code_diffs", "nonce_diffs", "storage_diffs"} THEN Err
  ELSE Ok([balance_diffs |-> process_balance_diffs(response), code_diffs |-> process_code_diffs(response),
           nonce_diffs |-> process_nonce_diffs(response), storage_diffs |-> process_storage_diffs(response)])
state_diffs_by_block(node, number, schemas) ==
  LET response == trace_block_state_diffs(node, number, AnyHas(schemas, "transaction_hash"))
  IN IF response.ok THEN process_state_diffs(response.val, schemas) ELSE Err
state_diffs_by_transaction(node, hash, schemas) ==
  LET response == trace_transaction_state_diffs(node, hash)
  IN IF response.ok THEN process_state_diffs(response.val, schemas) ELSE Err

-----------------------------------------------------------------------------
(* Geth's diffs: two maps, pre and post, from addresses to the fields they *)
(* give; slots, a map, is always given.                                    *)

parse_pre_post(account, field) == IF field \in DOMAIN account THEN account[field] ELSE Zero

Given(accounts, a) == IF a \in DOMAIN accounts THEN accounts[a] ELSE [slots |-> <<>>]

\* One row for every account of either map, whatever became of the field.
add_field(frame, field) ==
  LET addresses == SetToSeq(DOMAIN frame.pre \cup DOMAIN frame.post)
  IN [i \in DOMAIN addresses |->
        [address |-> addresses[i],
         change |-> <<parse_pre_post(Given(frame.pre, addresses[i]), field),
                      parse_pre_post(Given(frame.post, addresses[i]), field)>>]]

add_balances(frame) == add_field(frame, "balance")
add_codes(frame) == add_field(frame, "code")
add_nonces(frame) == add_field(frame, "nonce")

\* Mutant: a slot that is cleared, and so not in the second map, makes no row.
Mutadd_storages(frame) ==
  LET both(a) == {a} \X DOMAIN Given(frame.post, a).slots
      slots == SetToSeq(UNION {both(a) : a \in DOMAIN frame.pre \cup DOMAIN frame.post})
  IN [i \in DOMAIN slots |->
        [address |-> slots[i],
         change |-> <<parse_pre_post(Given(frame.pre, slots[i][1]).slots, slots[i][2]),
                      parse_pre_post(Given(frame.post, slots[i][1]).slots, slots[i][2])>>]]

\* A row for every slot of either map.
add_storages(frame) ==
  LET both(a) == {a} \X (DOMAIN Given(frame.pre, a).slots \cup DOMAIN Given(frame.post, a).slots)
      slots == SetToSeq(UNION {both(a) : a \in DOMAIN frame.pre \cup DOMAIN frame.post})
  IN [i \in DOMAIN slots |->
        [address |-> slots[i],
         change |-> <<parse_pre_post(Given(frame.pre, slots[i][1]).slots, slots[i][2]),
                      parse_pre_post(Given(frame.post, slots[i][1]).slots, slots[i][2])>>]]

process_geth_diffs(response, schemas) ==
  [dt \in DOMAIN schemas |->
     CASE dt = "geth_balance_diffs" -> rows_by_transaction(response, add_balances)
       [] dt = "geth_code_diffs" -> rows_by_transaction(response, add_codes)
       [] dt = "geth_nonce_diffs" -> rows_by_transaction(response, add_nonces)
       [] dt = "geth_storage_diffs" -> rows_by_transaction(response, add_storages)]

geth_state_diffs_by_block(node, number, schemas) ==
  Then(geth_debug_trace_block_diffs(node, number, AnyHas(schemas, "transaction_hash")),
       LAMBDA response : process_geth_diffs(response, schemas))
\* The number of the block comes with the hash.
geth_state_diffs_by_transaction(node, hash, schemas) ==
  Then(geth_debug_trace_transaction_diffs(node, hash, AnyHas(schemas, "transaction_hash")),
       LAMBDA response : process_geth_diffs(response, schemas))

\* Each of the four on its own asks as GethStateDiffs does.
geth_balance_diffs_by_block(node, number, schema) ==
  geth_state_diffs_by_block(node, number, [geth_balance_diffs |-> schema])
geth_balance_diffs_by_transaction(node, hash, schema) ==
  geth_state_diffs_by_transaction(node, hash, [geth_balance_diffs |-> schema])
geth_code_diffs_by_block(node, number, schema) ==
  geth_state_diffs_by_block(node, number, [geth_code_diffs |-> schema])
geth_code_diffs_by_transaction(node, hash, schema) ==
  geth_state_diffs_by_transaction(node, hash, [geth_code_diffs |-> schema])
geth_nonce_diffs_by_block(node, number, schema) ==
  geth_state_diffs_by_block(node, number, [geth_nonce_diffs |-> schema])
geth_nonce_diffs_by_transaction(node, hash, schema) ==
  geth_state_diffs_by_transaction(node, hash, [geth_nonce_diffs |-> schema])
geth_storage_diffs_by_block(node, number, schema) ==
  geth_state_diffs_by_block(node, number, [geth_storage_diffs |-> schema])
geth_storage_diffs_by_transaction(node, hash, schema) ==
  geth_state_diffs_by_transaction(node, hash, [geth_storage_diffs |-> schema])

-----------------------------------------------------------------------------
(* Prestates: a map from addresses to the fields given.                    *)

account_reads(response, field) ==
  rows_by_transaction(response, LAMBDA prestate :
    LET addresses == SetToSeq({a \in DOMAIN prestate : field \in DOMAIN prestate[a]})
    IN [i \in DOMAIN addresses |-> [address |-> addresses[i], value |-> prestate[addresses[i]][field]]])

process_balance_reads(response) == account_reads(response, "balance")
process_code_reads(response) == account_reads(response, "code")
process_nonce_reads(response) == account_reads(response, "nonce")

process_storage_reads(response) ==
  rows_by_transaction(response, LAMBDA prestate :
    LET slots == SetToSeq(UNION {{a} \X DOMAIN prestate[a].slots : a \in DOMAIN prestate})
    IN [i \in DOMAIN slots |-> [address |-> slots[i], value |-> prestate[slots[i][1]].slots[slots[i][2]]]])

balance_reads_by_block(node, number, schema) ==
  Then(geth_debug_trace_block_prestate(node, number, "transaction_hash" \in schema), process_balance_reads)
balance_reads_by_transaction(node, hash, schema) ==
  Then(geth_debug_trace_transaction_prestate(node, hash, "block_number" \in schema), process_balance_reads)

code_reads_by_block(node, number, schema) ==
  Then(geth_debug_trace_block_prestate(node, number, "transaction_hash" \in schema), process_code_reads)
code_reads_by_transaction(node, hash, schema) ==
  Then(geth_debug_trace_transaction_prestate(node, hash, "block_number" \in schema), process_code_reads)

nonce_reads_by_block(node, number, schema) ==
  Then(geth_debug_trace_block_prestate(node, number, "transaction_hash" \in schema), process_nonce_reads)
nonce_reads_by_transaction(node, hash, schema) ==
  Then(geth_debug_trace_transaction_prestate(node, hash, "block_number" \in schema), process_nonce_reads)

storage_reads_by_block(node, number, schema) ==
  Then(geth_debug_trace_block_prestate(node, number, "transaction_hash" \in schema), process_storage_reads)
storage_reads_by_transaction(node, hash, schema) ==
  Then(geth_debug_trace_transaction_prestate(node, hash, "block_number" \in schema), process_storage_reads)

read_datasets == <<"balance_reads", "code_reads", "nonce_reads", "storage_reads">>

\* StateReads: the first member of the four decides what is asked along.
FirstHas(schemas, column) ==
  LET first == SelectSeq(read_datasets, LAMBDA dt : dt \in DOMAIN schemas)
  IN first # <<>> /\ column \in schemas[first[1]]

process_state_reads(response, schemas) ==
  [dt \in DOMAIN schemas |->
     CASE dt = "balance_reads" -> process_balance_reads(response)
       [] dt = "code_reads" -> process_code_reads(response)
       [] dt = "nonce_reads" -> process_nonce_reads(response)
       [] dt = "storage_reads" -> process_storage_reads(response)]
state_reads_by_block(node, number, schemas) ==
  Then(geth_debug_trace_block_prestate(node, number, FirstHas(schemas, "transaction_hash")),
       LAMBDA response : process_state_reads(response, schemas))
state_reads_by_transaction(node, hash, schemas) ==
  Then(geth_debug_trace_transaction_prestate(node, hash, FirstHas(schemas, "block_number")),
       LAMBDA response : process_state_reads(response, schemas))
=============================================================================
