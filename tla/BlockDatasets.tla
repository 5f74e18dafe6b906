--------------------------- MODULE BlockDatasets ---------------------------
(***************************************************************************)
(* The datasets made of blocks, their transactions and receipts, and of    *)
(* the beacon blocks beside them.                                          *)
(*                                                                         *)
(* A block is [number, timestamp, base_fee, withdrawals, author, txs]; a   *)
(* transaction [hash, block, from, to, type, chain_id, y_parity, tip,      *)
(* max_fee, price, access_list, authorizations, blob_hashes]; a receipt    *)
(* [hash, status, gas_used, price, other].  What a field may lack is an    *)
(* option.                                                                 *)
(***************************************************************************)
EXTENDS Node

Gwei == 1000000000

\* as_transactions of a full block.
as_transactions(node, block) == [i \in DOMAIN block.txs |-> node.txs[block.txs[i]]]

-----------------------------------------------------------------------------
(* blocks and withdrawals                                                  *)

process_block(block) ==
  LET withdrawals == IF block.withdrawals = None THEN <<>> ELSE Unwrap(block.withdrawals)
  IN [block_number |-> block.number, timestamp |-> block.timestamp, base_fee_per_gas |-> block.base_fee,
      withdrawals_count |-> Len(withdrawals),
      withdrawals_amount_gwei |-> FoldLeft(LAMBDA sum, w : sum + w.amount, 0, withdrawals)]

blocks_by_block(node, number) ==
  Then(get_block(node, number), LAMBDA block : <<process_block(block)>>)

\* One block for each transaction asked about, pending ones refused.
blocks_by_transaction(node, hash) ==
  LET number == get_transaction_block_number(node, hash)
  IN IF number.ok THEN blocks_by_block(node, number.val) ELSE Err

\* RpcBatchable: the batch asks for a block as extract does and decodes it as extract does.
blocks_decode_row(item) == IF item = None THEN Err ELSE Ok(<<process_block(Unwrap(item))>>)

process_withdrawals(block) ==
  LET withdrawals == IF block.withdrawals = None THEN <<>> ELSE Unwrap(block.withdrawals)
  IN [i \in DOMAIN withdrawals |->
        [block_number |-> block.number, withdrawal_index |-> withdrawals[i].index,
         amount_gwei |-> withdrawals[i].amount, amount_wei |-> withdrawals[i].amount * Gwei]]

withdrawals_by_block(node, number) ==
  Then(get_block(node, number), process_withdrawals)

-----------------------------------------------------------------------------
(* transactions                                                            *)

RECEIPT_BACKED_COLUMNS ==
  {"gas_used", "success", "gas_price", "blob_gas_used", "blob_gas_price", "l1_fee", "l1_gas_used",
   "l1_gas_price", "l1_fee_scalar", "l1_blob_base_fee", "l1_base_fee_scalar",
   "l1_blob_base_fee_scalar", "operator_fee_scalar", "operator_fee_constant", "gas_used_for_l1",
   "gas_used_for_l2"}

needs_receipt(schema) == schema \cap RECEIPT_BACKED_COLUMNS # {}

\* EIP-155 only for transactions of type 0.
v_scalar(type, chain_id, y_parity) ==
  IF type # 0 THEN y_parity
  ELSE IF chain_id = None THEN 27 + y_parity
  ELSE 2 * Unwrap(chain_id) + 35 + y_parity

\* What the receipt says, else what the node said with the transaction, else what that offers over
\* the base fee.
effective_gas_price(tx, receipt, base_fee) ==
  IF receipt # None THEN Unwrap(receipt).price
  ELSE IF tx.price # None THEN Unwrap(tx.price)
  ELSE IF base_fee = None THEN tx.max_fee
  ELSE Min({tx.max_fee, Unwrap(base_fee) + tx.tip})

get_max_fee_per_gas(tx) == IF tx.type < 2 THEN None ELSE Some(tx.max_fee)

\* The columns stored straight from a field of the receipt, where process_transaction stores them:
\* a list apart from RECEIPT_BACKED_COLUMNS, which must not fall behind it.
FromReceipt ==
  {"blob_gas_used", "blob_gas_price", "l1_fee", "l1_gas_used", "l1_gas_price", "l1_fee_scalar",
   "l1_blob_base_fee", "l1_base_fee_scalar", "l1_blob_base_fee_scalar", "operator_fee_scalar",
   "operator_fee_constant", "gas_used_for_l1"}

\* The value a column is given; receipt.other holds the fields only some receipts have.
cell(column, tx, receipt, success, timestamp, base_fee) ==
  CASE column = "success" -> success
    [] column = "gas_used" -> {r.gas_used : r \in receipt}
    [] column = "gas_price" -> effective_gas_price(tx, receipt, base_fee)
    [] column = "gas_used_for_l2" ->
         {r.gas_used - r.other["gas_used_for_l1"] : r \in {r \in receipt :
            "gas_used_for_l1" \in DOMAIN r.other /\ r.other["gas_used_for_l1"] <= r.gas_used}}
    [] column \in FromReceipt ->
         {r.other[column] : r \in {r \in receipt : column \in DOMAIN r.other}}
    [] column = "max_fee_per_gas" -> get_max_fee_per_gas(tx)
    [] column = "v" -> v_scalar(tx.type, tx.chain_id, tx.y_parity)
    [] column = "timestamp" -> timestamp
    [] column = "n_access_list_addresses" -> {Len(l) : l \in tx.access_list}
    [] column = "n_access_list_storage_keys" ->
         {FoldLeft(LAMBDA n, e : n + Len(e.keys), 0, l) : l \in tx.access_list}
    [] column = "n_blob_versioned_hashes" -> {Len(h) : h \in tx.blob_hashes}
    [] column = "n_authorizations" -> {Len(a) : a \in tx.authorizations}
    [] OTHER -> tx.hash

tx_success(receipt) == IF receipt = None THEN Err ELSE Ok(Unwrap(receipt).status)

\* process_transaction: no row for a transaction that failed, when those are not wanted.
process_transaction(tx, receipt, schema, exclude_failed, timestamp, base_fee) ==
  LET asked == exclude_failed \/ "success" \in schema
      success == IF asked THEN tx_success(receipt) ELSE Ok(FALSE)
  IN IF ~success.ok THEN Err
     ELSE IF exclude_failed /\ ~success.val THEN Ok(<<>>)
     ELSE Ok(<<[c \in schema \cup {"transaction_hash"} |->
                  cell(c, tx, receipt, success.val, timestamp, base_fee)]>>)

\* Rows one after the other, up to the first error.
Collected(results) ==
  IF \E i \in DOMAIN results : ~results[i].ok THEN Err
  ELSE Ok(FlattenSeq([i \in DOMAIN results |-> results[i].val]))

\* get_tx_receipts: each must be there.
get_tx_receipts(node, txs) ==
  LET receipts == [i \in DOMAIN txs |-> get_transaction_receipt(node, txs[i].hash)]
  IN IF \E i \in DOMAIN receipts : receipts[i] = None THEN Err ELSE Ok(receipts)

\* Those of the block if the node has them together, else one by one.
get_tx_receipts_in_block(node, block) ==
  LET together == get_block_receipts(node, block.number)
  IN IF together.ok THEN together ELSE get_tx_receipts(node, as_transactions(node, block))

\* Mutant: the receipts of the whole block, whichever transactions were kept.
Mutreceipts_of(node, block, kept, filtered) == get_tx_receipts_in_block(node, block)

receipts_of(node, block, kept, filtered) ==
  IF filtered THEN get_tx_receipts(node, kept) ELSE get_tx_receipts_in_block(node, block)

transactions_by_block(node, number, from, to, schema, exclude_failed) ==
  LET block == node.blocks[number]
      kept == SelectSeq(as_transactions(node, block), LAMBDA tx :
                (from # None => tx.from \in from) /\ (to # None => tx.to # None /\ tx.to = to))
      receipts == IF needs_receipt(schema) THEN receipts_of(node, block, kept, from # None \/ to # None)
                  ELSE Ok([i \in DOMAIN kept |-> None])
  IN IF ~get_block(node, number).ok THEN Err
     ELSE IF ~receipts.ok THEN Err
     ELSE Collected([i \in 1 .. Min({Len(kept), Len(receipts.val)}) |->
            process_transaction(kept[i], receipts.val[i], schema, exclude_failed, block.timestamp,
                                block.base_fee)])

\* The addresses are not looked at here.
transactions_by_transaction(node, hash, schema, exclude_failed) ==
  LET tx == get_transaction_by_hash(node, hash)
      receipt == IF needs_receipt(schema) THEN get_transaction_receipt(node, hash) ELSE None
  IN IF ~tx.ok \/ tx.val.block = None THEN Err
     ELSE LET block == get_block(node, Unwrap(tx.val.block))
          IN IF ~block.ok THEN Err
             ELSE process_transaction(tx.val, receipt, schema, exclude_failed, block.val.timestamp,
                                      block.val.base_fee)

\* BlocksAndTransactions: the transactions' extract serves both.
blocks_and_transactions_by_block(node, number, from, to, schema, exclude_failed) ==
  LET rows == transactions_by_block(node, number, from, to, schema, exclude_failed)
  IN IF rows.ok THEN Ok([blocks |-> <<process_block(node.blocks[number])>>, transactions |-> rows.val])
     ELSE Err

blocks_and_transactions_by_transaction(node, hash, schema, exclude_failed) ==
  LET rows == transactions_by_transaction(node, hash, schema, exclude_failed)
  IN IF rows.ok
     THEN Ok([blocks |-> <<process_block(node.blocks[Unwrap(node.txs[hash].block)])>>,
              transactions |-> rows.val])
     ELSE Err

-----------------------------------------------------------------------------
(* What a transaction carries                                              *)

\* An entry without storage keys makes one row.
process_access_list(tx) ==
  IF tx.access_list = None THEN <<>>
  ELSE LET entries == Unwrap(tx.access_list)
           row(e, index, key) ==
             [hash |-> tx.hash, entry_index |-> e - 1, address |-> entries[e].address,
              storage_key_index |-> index, storage_key |-> key]
       IN FlattenSeq([e \in DOMAIN entries |->
            IF entries[e].keys = <<>> THEN <<row(e, None, None)>>
            ELSE [k \in DOMAIN entries[e].keys |-> row(e, Some(k - 1), Some(entries[e].keys[k]))]])

parity_bit(y_parity) == IF y_parity \in {0, 1} THEN Some(y_parity = 1) ELSE None

process_authorizations(tx) ==
  IF tx.authorizations = None THEN <<>>
  ELSE LET list == Unwrap(tx.authorizations)
       IN [i \in DOMAIN list |->
             [hash |-> tx.hash, authorization_index |-> i - 1, authority |-> list[i].authority,
              delegate_address |-> list[i].address, y_parity |-> parity_bit(list[i].y_parity)]]

\* The block's rows are those of its transactions, in order.
access_lists_by_block(node, number) ==
  Then(get_block(node, number), LAMBDA block :
    LET txs == as_transactions(node, block)
    IN FlattenSeq([i \in DOMAIN txs |-> process_access_list(txs[i])]))
access_lists_by_transaction(node, hash) ==
  LET tx == get_transaction_by_hash(node, hash)
  IN IF ~tx.ok \/ tx.val.block = None THEN Err ELSE Ok(process_access_list(tx.val))

authorizations_by_block(node, number) ==
  Then(get_block(node, number), LAMBDA block :
    LET txs == as_transactions(node, block)
    IN FlattenSeq([i \in DOMAIN txs |-> process_authorizations(txs[i])]))
authorizations_by_transaction(node, hash) ==
  LET tx == get_transaction_by_hash(node, hash)
  IN IF ~tx.ok \/ tx.val.block = None THEN Err ELSE Ok(process_authorizations(tx.val))
=============================================================================
