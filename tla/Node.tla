-------------------------------- MODULE Node --------------------------------
(***************************************************************************)
(* The methods of Source that read blocks, receipts, logs and traces, and  *)
(* what the node behind them holds.                                        *)
(*                                                                         *)
(* A node is [blocks, txs, receipts, block_receipts, logs, traces,         *)
(* rewards, replay, debug]: blocks and rewards by number, the others but   *)
(* logs by transaction hash; block_receipts tells whether the node has     *)
(* eth_getBlockReceipts.  debug gives for every tracer a frame             *)
(* [kind, val], of the tracer's kind or not.  What a node answers for a    *)
(* block it answers in the order of the block's transactions.              *)
(***************************************************************************)
EXTENDS Results, Integers, Sequences, SequencesExt, FiniteSetsExt

Of(map, key) == IF key \in DOMAIN map THEN Ok(map[key]) ELSE Err

\* The value of each transaction of a block.
InBlock(node, number, map) ==
  LET txs == node.blocks[number].txs IN [i \in DOMAIN txs |-> map[txs[i]]]

-----------------------------------------------------------------------------
(* Blocks, transactions, receipts, logs                                    *)

get_block(node, number) == Of(node.blocks, number)
get_transaction_by_hash(node, hash) == Of(node.txs, hash)
get_transaction_receipt(node, hash) == AsOption(Of(node.receipts, hash))

get_transaction_block_number(node, hash) ==
  LET tx == get_transaction_by_hash(node, hash)
  IN IF ~tx.ok \/ tx.val.block = None THEN Err ELSE Ok(Unwrap(tx.val.block))

get_block_receipts(node, number) ==
  LET txs == node.blocks[number].txs
  IN IF node.block_receipts
     THEN Ok(SelectSeq([i \in DOMAIN txs |-> get_transaction_receipt(node, txs[i])],
                       LAMBDA r : r # None))
     ELSE Err

\* The logs a filter lets through: a range of blocks, addresses, and for each position its topics.
get_logs(node, f) ==
  SelectSeq(node.logs, LAMBDA log :
    /\ f.range[1] <= log.block /\ log.block <= f.range[2]
    /\ f.address # {} => log.address \in f.address
    /\ \A i \in DOMAIN f.topics :
         f.topics[i] # {} => i <= Len(log.topics) /\ log.topics[i] \in f.topics[i])

get_transaction_logs(node, hash) ==
  IF get_transaction_receipt(node, hash) = None THEN Err
  ELSE Ok(SelectSeq(node.logs, LAMBDA log : log.tx = hash))

-----------------------------------------------------------------------------
(* Traces of Parity's kind                                                 *)

\* The traces of the block's transactions, then its rewards.
trace_block(node, number) ==
  IF get_block(node, number).ok
  THEN Ok(FlattenSeq(InBlock(node, number, node.traces)) \o node.rewards[number])
  ELSE Err
trace_transaction(node, hash) == Of(node.traces, hash)

trace_replay_block_transactions(node, number) ==
  IF get_block(node, number).ok THEN Ok(InBlock(node, number, node.replay)) ELSE Err
trace_replay_transaction(node, hash) == Of(node.replay, hash)

Hashes(node, number) == InBlock(node, number, [h \in DOMAIN node.txs |-> Some(h)])
Nobody(results) == [i \in DOMAIN results |-> None]

\* The hashes, when they are wanted, are those of the block, read on their own.
trace_block_state_diffs(node, number, include_txs) ==
  LET replayed == trace_replay_block_transactions(node, number)
  IN IF ~replayed.ok THEN Err
     ELSE Ok([block |-> Some(number),
              txs |-> IF include_txs THEN Hashes(node, number) ELSE Nobody(replayed.val),
              results |-> replayed.val])

trace_transaction_state_diffs(node, hash) ==
  LET replayed == trace_replay_transaction(node, hash)
  IN IF replayed.ok THEN Ok([block |-> None, txs |-> <<Some(hash)>>, results |-> <<replayed.val>>])
     ELSE Err

\* One hash, if any, for all the traces.
trace_block_vm_traces(node, number) ==
  LET replayed == trace_replay_block_transactions(node, number)
  IN IF replayed.ok THEN Ok([block |-> Some(number), tx |-> None, results |-> replayed.val]) ELSE Err

trace_transaction_vm_traces(node, hash) ==
  LET replayed == trace_replay_transaction(node, hash)
  IN IF replayed.ok THEN Ok([block |-> None, tx |-> Some(hash), results |-> <<replayed.val>>]) ELSE Err

-----------------------------------------------------------------------------
(* Traces of Geth's kind                                                   *)

Tracer(node, tracer) == [h \in DOMAIN node.debug |-> node.debug[h][tracer]]

geth_debug_trace_block(node, tracer, number, include_txs) ==
  IF ~get_block(node, number).ok THEN Err
  ELSE LET frames == InBlock(node, number, Tracer(node, tracer))
       IN Ok([block |-> Some(number),
              txs |-> IF include_txs THEN Hashes(node, number) ELSE Nobody(frames),
              results |-> frames])

geth_debug_trace_transaction(node, tracer, hash, include_block) ==
  LET tx == get_transaction_by_hash(node, hash)
  IN IF hash \notin DOMAIN node.debug \/ (include_block /\ ~tx.ok) THEN Err
     ELSE Ok([block |-> IF include_block THEN tx.val.block ELSE None, txs |-> <<Some(hash)>>,
              results |-> <<node.debug[hash][tracer]>>])

\* A frame of another kind, or an error in its place, is the error of all.  Of a block's four-byte
\* frames those of no kind are passed over: taken out of the results and not of the hashes.
Frames(response, kinds, passed_over) ==
  IF ~response.ok THEN Err
  ELSE IF \E i \in DOMAIN response.val.results : response.val.results[i].kind \notin kinds \cup passed_over
  THEN Err
  ELSE LET kept == SelectSeq(response.val.results, LAMBDA f : f.kind \in kinds)
       IN Ok([response.val EXCEPT !.results = [i \in DOMAIN kept |-> kept[i].val]])

geth_debug_trace_block_javascript_traces(node, number, include_txs) ==
  Frames(geth_debug_trace_block(node, "js", number, include_txs), {"js"}, {})
geth_debug_trace_block_opcodes(node, number, include_txs) ==
  Frames(geth_debug_trace_block(node, "default", number, include_txs), {"default"}, {})
geth_debug_trace_block_4byte_traces(node, number, include_txs) ==
  Frames(geth_debug_trace_block(node, "4byte", number, include_txs), {"4byte"}, {"noop"})
geth_debug_trace_block_prestate(node, number, include_txs) ==
  Frames(geth_debug_trace_block(node, "prestate", number, include_txs), {"prestate"}, {})
geth_debug_trace_block_calls(node, number, include_txs) ==
  Frames(geth_debug_trace_block(node, "call", number, include_txs), {"call"}, {})
\* An object of the JavaScript kind is read as a diff, here and not for a transaction.
geth_debug_trace_block_diffs(node, number, include_txs) ==
  Frames(geth_debug_trace_block(node, "diff", number, include_txs), {"diff", "js"}, {})

geth_debug_trace_transaction_javascript_traces(node, hash, include_block) ==
  Frames(geth_debug_trace_transaction(node, "js", hash, include_block), {"js"}, {})
geth_debug_trace_transaction_opcodes(node, hash, include_block) ==
  Frames(geth_debug_trace_transaction(node, "default", hash, include_block), {"default"}, {})
geth_debug_trace_transaction_4byte_traces(node, hash, include_block) ==
  Frames(geth_debug_trace_transaction(node, "4byte", hash, include_block), {"4byte"}, {})
geth_debug_trace_transaction_prestate(node, hash, include_block) ==
  Frames(geth_debug_trace_transaction(node, "prestate", hash, include_block), {"prestate"}, {})
geth_debug_trace_transaction_calls(node, hash, include_block) ==
  Frames(geth_debug_trace_transaction(node, "call", hash, include_block), {"call"}, {})
geth_debug_trace_transaction_diffs(node, hash, include_block) ==
  Frames(geth_debug_trace_transaction(node, "diff", hash, include_block), {"diff"}, {})
=============================================================================
