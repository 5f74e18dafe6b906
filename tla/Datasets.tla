------------------------------ MODULE Datasets ------------------------------
(***************************************************************************)
(* What the datasets make of one node's answers, asked in every way the    *)
(* program may ask: each dataset on its own by block, coalesced with       *)
(* others, by transaction, one call at a time and through Multicall3.      *)
(* input is what is asked of which node, out the rows of every way.        *)
(***************************************************************************)
EXTENDS LogDatasets, TraceDatasets, BlockDatasets, BeaconClient, CallDatasets

CONSTANTS LogInputs, TraceInputs, StateInputs, TxInputs, BeaconInputs, CallInputs

VARIABLES input, out
vars == <<input, out>>

Pending == [part |-> "pending"]

LogDatatypes ==
  {"logs", "erc20_transfers", "erc20_approvals", "erc721_transfers", "erc20_wrapper_events",
   "approvals_for_all", "erc1155_transfers", "erc777_transfers", "erc4626_vault_events",
   "erc1155_metadata", "proxy_upgrades"}

Init ==
  /\ \/ input \in LogInputs
     \/ input \in TraceInputs
     \/ input \in StateInputs
     \/ input \in TxInputs
     \/ input \in BeaconInputs
     \/ input \in CallInputs
  /\ out = Pending

Asked(part) == out = Pending /\ input.part = part /\ UNCHANGED input

Txs == input.node.blocks[1].txs
EachTx(rows(_)) == [i \in DOMAIN Txs |-> rows(Txs[i])]

-----------------------------------------------------------------------------
(* One action for each family                                              *)

CollectLogs ==
  LET i == input
      ofTx(h) == ("transaction" :> h) @@ i.p
  IN /\ Asked("logs")
     /\ out' = [part |-> "logs",
                scalar |-> [dt \in LogDatatypes |-> scalar_by_block(dt, i.node, i.p, i.decoder)],
                multi |-> log_events_by_block(i.active, i.node, i.p, i.decoder),
                txs |-> [dt \in LogDatatypes |->
                           EachTx(LAMBDA h : scalar_by_transaction(dt, i.node, ofTx(h), i.decoder))],
                multi_txs |-> EachTx(LAMBDA h : log_events_by_transaction(i.active, i.node, ofTx(h), i.decoder))]

CollectTraces ==
  LET i == input
      ofTx(h) == [i.p EXCEPT !.hash = h]
      all == {"traces", "contracts", "native_transfers"}
  IN /\ Asked("traces")
     /\ out' = [part |-> "traces",
                scalar |-> [traces |-> traces_by_block(i.node, i.p, i.exclude_failed),
                            contracts |-> contracts_by_block(i.node, i.p, i.exclude_failed),
                            native_transfers |-> native_transfers_by_block(i.node, i.p, i.exclude_failed),
                            appearances |-> appearances_by_block(i.node, 1)],
                multi |-> call_trace_derivatives_by_block(all, i.node, i.p, i.exclude_failed),
                txs |-> [traces |-> EachTx(LAMBDA h : traces_by_transaction(i.node, ofTx(h), i.exclude_failed)),
                         contracts |-> EachTx(LAMBDA h : contracts_by_transaction(i.node, ofTx(h), i.exclude_failed)),
                         native_transfers |->
                           EachTx(LAMBDA h : native_transfers_by_transaction(i.node, ofTx(h), i.exclude_failed)),
                         appearances |-> EachTx(LAMBDA h : appearances_by_transaction(i.node, h))],
                multi_txs |->
                  EachTx(LAMBDA h : call_trace_derivatives_by_transaction(all, i.node, ofTx(h), i.exclude_failed))]

\* schemas gives each member of StateDiffs, StateReads and GethStateDiffs its columns.
CollectState ==
  LET i == input
      schema(dt) == i.schemas[dt]
      Members(dts) == [dt \in dts |-> i.schemas[dt]]
      parity == {"balance_diffs", "code_diffs", "nonce_diffs", "storage_diffs"}
      geth == {"geth_balance_diffs", "geth_code_diffs", "geth_nonce_diffs", "geth_storage_diffs"}
      reads == ToSet(read_datasets)
  IN /\ Asked("state")
     /\ out' = [part |-> "state",
                scalar |-> [balance_diffs |-> balance_diffs_by_block(i.node, 1, schema("balance_diffs")),
                            code_diffs |-> code_diffs_by_block(i.node, 1, schema("code_diffs")),
                            nonce_diffs |-> nonce_diffs_by_block(i.node, 1, schema("nonce_diffs")),
                            storage_diffs |-> storage_diffs_by_block(i.node, 1, schema("storage_diffs")),
                            balance_reads |-> balance_reads_by_block(i.node, 1, schema("balance_reads")),
                            code_reads |-> code_reads_by_block(i.node, 1, schema("code_reads")),
                            nonce_reads |-> nonce_reads_by_block(i.node, 1, schema("nonce_reads")),
                            storage_reads |-> storage_reads_by_block(i.node, 1, schema("storage_reads")),
                            geth_balance_diffs |-> geth_balance_diffs_by_block(i.node, 1, schema("geth_balance_diffs")),
                            geth_code_diffs |-> geth_code_diffs_by_block(i.node, 1, schema("geth_code_diffs")),
                            geth_nonce_diffs |-> geth_nonce_diffs_by_block(i.node, 1, schema("geth_nonce_diffs")),
                            geth_storage_diffs |-> geth_storage_diffs_by_block(i.node, 1, schema("geth_storage_diffs"))],
                multi |-> [diffs |-> state_diffs_by_block(i.node, 1, Members(parity)),
                           reads |-> state_reads_by_block(i.node, 1, Members(reads)),
                           geth |-> geth_state_diffs_by_block(i.node, 1, Members(geth))],
                txs |-> [balance_diffs |-> EachTx(LAMBDA h : balance_diffs_by_transaction(i.node, h)),
                         code_diffs |-> EachTx(LAMBDA h : code_diffs_by_transaction(i.node, h)),
                         nonce_diffs |-> EachTx(LAMBDA h : nonce_diffs_by_transaction(i.node, h)),
                         storage_diffs |-> EachTx(LAMBDA h : storage_diffs_by_transaction(i.node, h)),
                         balance_reads |-> EachTx(LAMBDA h : balance_reads_by_transaction(i.node, h, schema("balance_reads"))),
                         code_reads |-> EachTx(LAMBDA h : code_reads_by_transaction(i.node, h, schema("code_reads"))),
                         nonce_reads |-> EachTx(LAMBDA h : nonce_reads_by_transaction(i.node, h, schema("nonce_reads"))),
                         storage_reads |-> EachTx(LAMBDA h : storage_reads_by_transaction(i.node, h, schema("storage_reads"))),
                         four_byte_counts |-> EachTx(LAMBDA h : four_byte_counts_by_transaction(i.node, h, schema("traces"))),
                         geth_calls |-> EachTx(LAMBDA h : geth_calls_by_transaction(i.node, h, schema("traces"))),
                         geth_opcodes |-> EachTx(LAMBDA h : geth_opcodes_by_transaction(i.node, h, schema("traces"))),
                         vm_traces |-> EachTx(LAMBDA h : vm_traces_by_transaction(i.node, h)),
                         javascript_traces |->
                           EachTx(LAMBDA h : javascript_traces_by_transaction(i.node, h, schema("traces"), i.js_tracer))],
                geth_txs |-> [geth_balance_diffs |->
                                EachTx(LAMBDA h : geth_balance_diffs_by_transaction(i.node, h, schema("geth_balance_diffs"))),
                              geth_code_diffs |->
                                EachTx(LAMBDA h : geth_code_diffs_by_transaction(i.node, h, schema("geth_code_diffs"))),
                              geth_nonce_diffs |->
                                EachTx(LAMBDA h : geth_nonce_diffs_by_transaction(i.node, h, schema("geth_nonce_diffs"))),
                              geth_storage_diffs |->
                                EachTx(LAMBDA h : geth_storage_diffs_by_transaction(i.node, h, schema("geth_storage_diffs")))],
                multi_txs |-> [diffs |-> EachTx(LAMBDA h : state_diffs_by_transaction(i.node, h, Members(parity))),
                               reads |-> EachTx(LAMBDA h : state_reads_by_transaction(i.node, h, Members(reads))),
                               geth |-> EachTx(LAMBDA h : geth_state_diffs_by_transaction(i.node, h, Members(geth)))],
                frames |-> [four_byte_counts |-> four_byte_counts_by_block(i.node, 1, schema("traces")),
                            geth_calls |-> geth_calls_by_block(i.node, 1, schema("traces")),
                            geth_opcodes |-> geth_opcodes_by_block(i.node, 1, schema("traces")),
                            vm_traces |-> vm_traces_by_block(i.node, 1),
                            javascript_traces |->
                              javascript_traces_by_block(i.node, 1, schema("traces"), i.js_tracer)]]

\* Every column that a receipt fills.
ReceiptColumns == FromReceipt \cup {"success", "gas_used", "gas_price", "gas_used_for_l2"}

CollectTransactions ==
  LET i == input
      full == i.schema \cup ReceiptColumns
  IN /\ Asked("txs")
     /\ out' = [part |-> "txs",
                blocks |-> blocks_by_block(i.node, 1),
                withdrawals |-> withdrawals_by_block(i.node, 1),
                rows |-> transactions_by_block(i.node, 1, i.from, i.to, i.schema, i.exclude_failed),
                full |-> transactions_by_block(i.node, 1, i.from, i.to, full, i.exclude_failed),
                multi |-> blocks_and_transactions_by_block(i.node, 1, i.from, i.to, i.schema, i.exclude_failed),
                txs |-> EachTx(LAMBDA h : transactions_by_transaction(i.node, h, i.schema, i.exclude_failed)),
                blocks_txs |-> EachTx(LAMBDA h : blocks_by_transaction(i.node, h)),
                multi_txs |->
                  EachTx(LAMBDA h : blocks_and_transactions_by_transaction(i.node, h, i.schema, i.exclude_failed)),
                access_lists |-> access_lists_by_block(i.node, 1),
                access_lists_txs |-> EachTx(LAMBDA h : access_lists_by_transaction(i.node, h)),
                authorizations |-> authorizations_by_block(i.node, 1),
                authorizations_txs |-> EachTx(LAMBDA h : authorizations_by_transaction(i.node, h))]

CollectBeacon ==
  LET i == input
      beacon == AsOption(connect(i.net, i.beacon_url, i.archive_url))
      block == Ok(i.block)
      blobs == blobs_extract(beacon, block)
      requests == beacon_requests_fetch(beacon, block)
  IN /\ Asked("beacon")
     /\ out' = [part |-> "beacon", connected |-> beacon # None,
                blobs |-> Then(blobs, LAMBDA response : blobs_transform(response, i.block.txs)),
                deposits |-> Then(requests, deposit_rows),
                withdrawals |-> Then(requests, withdrawal_rows),
                consolidations |-> Then(requests, consolidation_rows)]

CollectCalls ==
  LET i == input
  IN /\ Asked("calls")
     /\ out' = [part |-> "calls",
                rows |-> [multicall \in BOOLEAN |->
                  [eth_calls |-> eth_calls(i.node, i.p, multicall),
                   erc20_balances |-> erc20_balances(i.node, i.p, multicall),
                   erc20_allowances |-> erc20_allowances(i.node, i.p, multicall),
                   erc20_supplies |-> erc20_supplies(i.node, i.p, multicall),
                   erc20_metadata |-> erc20_metadata(i.node, i.p, multicall),
                   erc721_metadata |-> erc721_metadata(i.node, i.p, multicall),
                   erc4626_metadata |-> erc4626_metadata(i.node, i.p, multicall),
                   erc2612_permits |-> IF multicall THEN erc2612_multicall(i.node, i.p, i.schema)
                                       ELSE erc2612_extract(i.node, i.p, i.schema),
                   contract_interfaces |-> IF multicall THEN interfaces_multicall(i.node, i.p)
                                           ELSE interfaces_extract(i.node, i.p)]],
                state |-> [balances |-> balances(i.node, i.p), nonces |-> nonces(i.node, i.p),
                           codes |-> codes(i.node, i.p), slots |-> slots(i.node, i.p),
                           proxy_slots |-> proxy_slots(i.node, i.p)]]

Next == CollectLogs \/ CollectTraces \/ CollectState \/ CollectTransactions \/ CollectBeacon \/ CollectCalls
Spec == Init /\ [][Next]_vars

-----------------------------------------------------------------------------
(* Properties                                                              *)

Done(part) == out.part = part
NoDims == DOMAIN input.p = {"block_range"}
Unfiltered == input.p.from = {} /\ input.p.to = {}

\* Rows without the hash and the number that only some schemas ask for.
Bare(rows) == [i \in DOMAIN rows |-> rows[i].row]
BareResult(r) == IF r.ok THEN Ok(Bare(r.val)) ELSE r

\* A group gives the rows its members give on their own, and none for a member that on its own is an
\* error (an address too long for the topic it filters by).
SameRows(group, alone(_)) ==
  group.ok => \A dt \in DOMAIN group.val :
    group.val[dt] = IF alone(dt).ok THEN alone(dt).val ELSE <<>>
SameBareRows(group, alone(_)) ==
  group.ok => \A dt \in DOMAIN group.val : alone(dt).ok /\ Bare(group.val[dt]) = Bare(alone(dt).val)

\* Collecting datasets together returns what each returns on its own: LogEvents' one union filter,
\* narrowed to the topics all members pin, and its re-matching (log_events.rs), CallTraceDerivatives
\* without address filters, the state diffs and reads, and BlocksAndTransactions.
CoalescedAgrees ==
  /\ Done("logs") =>
       /\ SameRows(out.multi, LAMBDA dt : out.scalar[dt])
       /\ ~out.multi.ok => \A dt \in input.active : ~out.scalar[dt].ok
       /\ NoDims => \A t \in DOMAIN Txs : SameRows(out.multi_txs[t], LAMBDA dt : out.txs[dt][t])
  /\ Done("traces") /\ Unfiltered =>
       /\ SameRows(out.multi, LAMBDA dt : out.scalar[dt])
       /\ \A t \in DOMAIN Txs : SameRows(out.multi_txs[t], LAMBDA dt : out.txs[dt][t])
  /\ Done("state") =>
       /\ \A g \in DOMAIN out.multi :
            out.multi[g].ok => \A dt \in DOMAIN out.multi[g].val :
              Bare(out.multi[g].val[dt]) =
                Bare(IF g = "geth" THEN out.scalar[dt].val[dt] ELSE out.scalar[dt].val)
       /\ \A t \in DOMAIN Txs : \A g \in {"diffs", "reads"} :
            SameBareRows(out.multi_txs[g][t], LAMBDA dt : out.txs[dt][t])
  /\ Done("txs") =>
       /\ out.multi.ok = out.rows.ok
       /\ out.multi.ok => out.multi.val = [blocks |-> out.blocks.val, transactions |-> out.rows.val]
       /\ \A t \in DOMAIN Txs : out.multi_txs[t].ok =>
            out.multi_txs[t].val = [blocks |-> out.blocks_txs[t].val, transactions |-> out.txs[t].val]

\* The rows of a block are those of its transactions asked for one by one.  Where a filter is sent to
\* the node by block it is applied by hand by transaction (logs).  Traces of an excluded failure are
\* compared without address filters: those take away the root trace that ends a failure.
ByTransactionAgrees ==
  /\ Done("logs") => \A dt \in LogDatatypes :
       out.scalar[dt].ok => Collected(out.txs[dt]) = out.scalar[dt]
  /\ Done("traces") =>
       /\ Unfiltered \/ ~input.exclude_failed =>
            Collected(out.txs.traces).val = SelectSeq(out.scalar.traces.val, LAMBDA r : r.tx # 0)
       /\ Collected(out.txs.appearances) = out.scalar.appearances
  /\ Done("state") =>
       /\ \A dt \in DOMAIN out.scalar \cap DOMAIN out.txs :
            BareResult(Collected(out.txs[dt])) = BareResult(out.scalar[dt])
       /\ \A dt \in DOMAIN out.geth_txs :
            FlattenSeq([t \in DOMAIN Txs |-> Bare(out.geth_txs[dt][t].val[dt])]) = Bare(out.scalar[dt].val[dt])
       /\ \A dt \in DOMAIN out.frames \ {"four_byte_counts"} :
            BareResult(Collected(out.txs[dt])) = BareResult(out.frames[dt])
  /\ Done("txs") =>
       /\ Collected(out.access_lists_txs) = out.access_lists
       /\ Collected(out.authorizations_txs) = out.authorizations
       /\ out.rows.ok /\ input.from = None /\ input.to = None => Collected(out.txs) = out.rows

\* Two rows of a dataset never share their block, log and item: the pairs of a batch are numbered.
KeysAreUnique ==
  Done("logs") => \A dt \in LogDatatypes : out.scalar[dt].ok =>
    \A a, b \in DOMAIN out.scalar[dt].val :
      LET rows == out.scalar[dt].val
      IN rows[a].log = rows[b].log /\ rows[a].item = rows[b].item => a = b

\* A log is a row of at most one dataset besides logs: ERC-20 and ERC-721 transfers have the same
\* signature and are told apart by their shape alone.
OneFamilyPerLog ==
  Done("logs") => \A a, b \in LogDatatypes \ {"logs"} :
    a # b /\ out.scalar[a].ok /\ out.scalar[b].ok =>
      \A x \in ToSet(out.scalar[a].val), y \in ToSet(out.scalar[b].val) : x.log # y.log

AllTraces == trace_block(input.node, 1).val
Reverted(t) == \E u \in ToSet(AllTraces) : u.tx = t.tx /\ u.error /\ IsPrefix(u.path, t.path)

\* --exclude-failed leaves exactly the traces that took effect: none that failed, and none below one
\* that failed, however deep, in an order where each trace comes right after its parent's.
FailedCallsExcluded ==
  Done("traces") /\ input.exclude_failed /\ Unfiltered =>
    LET kept == SelectSeq(AllTraces, LAMBDA t : ~Reverted(t))
    IN out.scalar.traces = Ok(process_traces(kept))

\* The deployer of a contract is the sender of the transaction that made it, not of the one before.
DeployerSentTheTransaction ==
  Done("traces") => \A row \in ToSet(out.scalar.contracts.val) :
    row.deployer = input.node.traces[row.tx][1].from

\* input.states are the states around the transactions: accounts to [balance, nonce, code, slot], 0
\* for what is not there.  A row of transaction t is of what was before and after it.
Fields == {"balance", "nonce", "code", "slot"}
Was(t, a, field) == input.states[t][a][field]
Becomes(t, a, field) == input.states[t + 1][a][field]
Accs == DOMAIN input.states[1]
Touched(t) == {a \in Accs : input.states[t][a] # input.states[t + 1][a]}
Changed(t, field) == {a \in Accs : Was(t, a, field) # Becomes(t, a, field)}
PlaceOf(a, field) == IF field = "slot" THEN <<a, "s">> ELSE a
RowsOf(rows, t) == {r.row : r \in {r \in ToSet(rows) : r.index = t - 1}}
Moved(t, a, field) == [address |-> PlaceOf(a, field), change |-> <<Was(t, a, field), Becomes(t, a, field)>>]

ParityDataset == [balance |-> "balance_diffs", nonce |-> "nonce_diffs", code |-> "code_diffs",
                  slot |-> "storage_diffs"]
GethDataset == [balance |-> "geth_balance_diffs", nonce |-> "geth_nonce_diffs", code |-> "geth_code_diffs",
                slot |-> "geth_storage_diffs"]

\* Parity's diffs have a row for every value a transaction changed, and no row says anything of a value
\* but what it was before and after that transaction.
ParityDiffsAreTrue ==
  Done("state") => \A field \in Fields, t \in DOMAIN Txs :
    LET rows == RowsOf(out.scalar[ParityDataset[field]].val, t)
    IN /\ {Moved(t, a, field) : a \in Changed(t, field)} \subseteq rows
       /\ rows \subseteq {Moved(t, a, field) : a \in Touched(t)}

\* Geth's diffs have the same row for every change.  Their other rows are false: geth leaves a field that
\* did not change out of the account's second half, and that is written as a change to 0, a balance of
\* 3 as 3 to 0 (geth_state_diffs.rs:147-165, 249-259), where book/datasets/dataset_reference.md:49-52 promises
\* the changes.  There is one of these for every field that stayed of every account touched, and
\* none of a slot.
GethDiffsAreExact ==
  Done("state") => \A field \in Fields, t \in DOMAIN Txs :
    LET stayed == IF field = "slot" THEN {} ELSE Touched(t) \ Changed(t, field)
    IN RowsOf(out.scalar[GethDataset[field]].val[GethDataset[field]], t) =
         {Moved(t, a, field) : a \in Changed(t, field)}
           \cup {[address |-> a, change |-> <<Was(t, a, field), 0>>] : a \in stayed}

\* What a row says of a receipt is its own transaction's, with and without address filters, from the
\* block's receipts or one by one.
ReceiptsBelong ==
  Done("txs") /\ out.full.ok =>
    \A row \in ToSet(out.full.val) :
      row["gas_used"] = Some(input.node.receipts[row["transaction_hash"]].gas_used)

\* A column has the value it would have if all were asked for: the receipts are read whenever one of
\* the columns asked for needs them, though the list that decides is not the code that stores them.
\* Only --exclude-failed without such a column is an error, for want of a receipt to tell by.
ColumnsKeepTheirValues ==
  Done("txs") /\ out.full.ok =>
    IF ~out.rows.ok THEN input.exclude_failed /\ input.schema \cap ReceiptColumns = {}
    ELSE /\ Len(out.rows.val) = Len(out.full.val)
         /\ \A i \in DOMAIN out.rows.val : \A c \in input.schema : out.rows.val[i][c] = out.full.val[i][c]

\* The access list of a transaction can be read back from its rows, in order, entries without keys
\* included.
AccessListsReadBack ==
  Done("txs") => \A t \in DOMAIN Txs :
    LET rows == out.access_lists_txs[t].val
        list == FlattenSeq(SetToSeq(input.node.txs[Txs[t]].access_list))
        of(e) == SelectSeq(rows, LAMBDA r : r.entry_index = e - 1)
    IN /\ {r.entry_index + 1 : r \in ToSet(rows)} = DOMAIN list
       /\ \A e \in DOMAIN list :
            /\ {r.address : r \in ToSet(of(e))} = {list[e].address}
            /\ FlattenSeq([i \in DOMAIN of(e) |-> SetToSeq(of(e)[i].storage_key)]) = list[e].keys

\* The slot in whose seconds the block of the request falls, if the beacon chain has begun.
InSlot(slot) ==
  LET start == input.net.genesis.body + slot * input.net.spec.body["SECONDS_PER_SLOT"]
  IN start <= input.block.timestamp
     /\ input.block.timestamp < start + input.net.spec.body["SECONDS_PER_SLOT"]
BeaconSlot == {slot \in DOMAIN input.net.sidecars : InSlot(slot)}

\* Requests are those of the beacon block read for the slot, and that carries the block they are filed
\* under, not another (a beacon node on another branch).  One that names no execution block at all is
\* taken at its word (beacon.rs:578-580).
RequestsUnderTheirBlock ==
  Done("beacon") =>
    \A rows \in {out.deposits, out.withdrawals, out.consolidations} : rows.ok /\ rows.val # <<>> =>
      \E slot \in BeaconSlot :
        LET blinded == input.net.blinded[slot]
            read == IF blinded.status = 200 THEN blinded ELSE input.net.blocks[slot]
        IN read.status = 200 /\ read.body.number \in {None, Some(input.block.number)}

\* An answer that there is nothing, by its status; and an error of another status whose text has
\* "returned 404" in it.
SaysNothing(answer) == answer.status \in {200, 404}
Quotes404(answer) == answer.status \notin {0, 200, 404} /\ answer.quoted

\* No rows for the blobs of a slot means that a source said so, not that none could be asked, with one
\* exception: an error whose body quotes "returned 404" is taken for a 404.  beacon.rs:687-688 says that
\* "a 404 inside a *response body* cannot be mistaken for a 404 status"; the text is_not_found searches
\* has the body in it (453-456), and where the node is the only source such an error is always no rows.
EmptyMeansToldSo ==
  Done("beacon") => \A slot \in BeaconSlot :
    LET asked == {a \in {input.net.sidecars[slot]} : input.beacon_url}
                   \cup {a \in {input.net.archive[input.block.number]} : input.archive_url}
    IN /\ out.blobs = Ok(<<>>) => \E a \in asked : SaysNothing(a) \/ Quotes404(a)
       /\ ~input.archive_url /\ (\E a \in asked : Quotes404(a)) => out.blobs = Ok(<<>>)

\* A blob is a row of the transaction that carries its hash.
BlobsHaveTheirCarrier ==
  Done("beacon") /\ out.blobs.ok => \A row \in ToSet(out.blobs.val) :
    \A h \in row.transaction_hash : \E t \in ToSet(input.block.txs) :
      t.hash = h /\ row.versioned_hash \subseteq UNION {ToSet(b) : b \in t.blob_hashes}

\* A slot is the one in whose seconds the block falls: none for a block before the beacon chain's
\* genesis, which the clock cannot place.
RowsInTheirSlot ==
  Done("beacon") =>
    \A rows \in {out.deposits, out.withdrawals, out.consolidations} :
      rows.ok => \A row \in ToSet(rows.val) : InSlot(row.slot)

Answer(call) == input.node.calls[call].answer
Gas(call) == input.node.calls[call].gas

\* The calls of a row, in the order a batch makes them, each with the column it fills.
CallsOf(ds) ==
  LET p == input.p
      of(dim, columns, data) == [i \in DOMAIN columns |-> [column |-> columns[i], call |-> Call(p[dim], data[i])]]
  IN CASE ds = "eth_calls" -> of("contract", <<"output_data">>, <<p["call_data"].val>>)
       [] ds = "erc20_balances" -> of("contract", <<"balance">>, <<<<"balanceOf", p["address"].val>>>>)
       [] ds = "erc20_allowances" ->
            of("contract", <<"allowance">>, <<<<"allowance", p["from_address"].val, p["to_address"].val>>>>)
       [] ds = "erc20_supplies" -> of("address", <<"total_supply">>, <<<<"totalSupply">>>>)
       [] ds = "erc20_metadata" ->
            of("address", <<"name", "symbol", "decimals">>, <<<<"name">>, <<"symbol">>, <<"decimals">>>>)
       [] ds = "erc721_metadata" -> of("address", <<"name", "symbol">>, <<<<"name">>, <<"symbol">>>>)
       [] ds = "erc4626_metadata" ->
            of("address", <<"asset", "total_assets", "total_supply">>,
               <<<<"asset">>, <<"totalAssets">>, <<"totalSupply">>>>)
       [] ds = "erc2612_permits" ->
            of("contract", <<"nonce", "domain_separator">>, <<<<"nonces", p["address"].val>>, <<"DOMAIN_SEPARATOR">>>>)
       [] ds = "contract_interfaces" ->
            of("address", PROBES, [i \in DOMAIN PROBES |-> <<"supportsInterface", PROBES[i]>>])

\* The columns somebody asked for: only erc2612's second is left out of a row.
Wanted(ds) ==
  {i \in DOMAIN CallsOf(ds) :
     CallsOf(ds)[i].column = "domain_separator" => "domain_separator" \in input.schema}
Cell(row, column) == IF "supports" \in DOMAIN row THEN row.supports[column] ELSE row[column]

\* The gas of a batch is gone by its i-th call; a probe takes more than it may when asked alone; the
\* contract refused in words that errors.rs does not know.
Starved(ds, i) ==
  FoldLeft(LAMBDA sum, c : sum + Gas(c.call), 0, SubSeq(CallsOf(ds), 1, i)) > input.node.gas_cap
TooDear(ds, i) == ds = "contract_interfaces" /\ Gas(CallsOf(ds)[i].call) > PROBE_GAS_LIMIT
Unread(call) == ~Answer(call).ok /\ Answer(call).by = "contract" /\ call_outcome(Answer(call)) = "NodeFailed"

\* A call asked through Multicall3 fills the column it fills when asked alone, with four exceptions,
\* each of them exactly where the code makes it.  A call of a batch whose gas is gone is a null, whatever
\* it answers alone; a probe dearer than PROBE_GAS_LIMIT is a null alone, whatever it answers in a batch
\* (contract_interfaces.rs:184, 202-205 and 265-297); an eth_call that answers without data is a null
\* in a batch only; and a refusal in words errors.rs does not know fails the row alone, where a batch
\* has no words and says null.  book/basic_usage/request_batching.md:8-11 says that "batching changes how many
\* requests your results cost, never the results themselves".
PathsAgree ==
  Done("calls") => \A ds \in DOMAIN out.rows[TRUE] :
    LET alone == out.rows[FALSE][ds]
        batch == out.rows[TRUE][ds]
        unread == \E i \in Wanted(ds) : Unread(CallsOf(ds)[i].call)
    IN /\ alone.ok => batch.ok
       /\ batch.ok /\ ~alone.ok => unread
       /\ alone.ok => \A i \in Wanted(ds) :
            LET column == CallsOf(ds)[i].column
                a == Cell(alone.val, column)
                b == Cell(batch.val, column)
            IN CASE Starved(ds, i) -> b = None
                 [] ~Starved(ds, i) /\ TooDear(ds, i) -> a = None
                 [] ~Starved(ds, i) /\ ~TooDear(ds, i) ->
                      IF ds = "eth_calls" /\ a = Some(Empty) THEN b = None ELSE a = b

\* Where the node fails one of the calls a row is made of there is an error and no row, however the
\* others went and however they were sent: a null always means that the contract refused, ran out of
\* gas, or answered something else than the column holds.
NodeFailureIsNoRow ==
  Done("calls") => \A multicall \in BOOLEAN : \A ds \in DOMAIN out.rows[multicall] :
    (\E i \in Wanted(ds) : NodeFails(Answer(CallsOf(ds)[i].call))) => ~out.rows[multicall][ds].ok

\* An answer without data is no value: not a zero balance, not a zero supply.
EmptyIsNoValue ==
  Done("calls") => \A multicall \in BOOLEAN : \A ds \in DOMAIN out.rows[multicall] \ {"eth_calls"} :
    out.rows[multicall][ds].ok => \A i \in Wanted(ds) :
      Answer(CallsOf(ds)[i].call) = Ok(Empty) => Cell(out.rows[multicall][ds].val, CallsOf(ds)[i].column) = None

\* The rows of log datasets are told apart: within a dataset by their key, and no log is in two.
LogRowsAreApart == KeysAreUnique /\ OneFamilyPerLog

\* Trace rows say what took effect and who sent it.
TracesAreTrue == FailedCallsExcluded /\ DeployerSentTheTransaction

\* Parity's diffs are the changes of the state; Geth's are those and a false one, to 0, for every field
\* that stayed of an account touched.
DiffsAreExact == ParityDiffsAreTrue /\ GethDiffsAreExact

\* Every column of a transaction is its own, whichever others are asked for and filtered by.
TransactionsAreTrue == ReceiptsBelong /\ ColumnsKeepTheirValues /\ AccessListsReadBack

\* Whatever the beacon node and the archive answer, rows are the block's own, and none means that
\* there are none or that an error was taken for saying so.
BeaconRowsAreTrue == RowsInTheirSlot /\ RequestsUnderTheirBlock /\ EmptyMeansToldSo /\ BlobsHaveTheirCarrier

\* Where a call's row depends on how it was sent, and that a failure or an empty answer is no value.
CallRowsAreTrue == PathsAgree /\ NodeFailureIsNoRow /\ EmptyIsNoValue
=============================================================================
