---------------------------- MODULE DatasetTable ----------------------------
(***************************************************************************)
(* What each of the 56 datasets declares of itself: its columns, which of  *)
(* them are extracted and sorted by when nothing is said, the dimensions   *)
(* it needs, the ones it takes, and which it accepts in the place of       *)
(* another. A column's type is kept as far as it decides what is written:  *)
(* "plain" is one series, "binary" one series of bytes or hexadecimal, and *)
(* "u256" one series per representation asked for.                         *)
(***************************************************************************)
EXTENDS Sequences, TLC

\* map_type_to_column_type, over the fields of the struct.
Columns(plain, binary, u256) ==
    [c \in plain |-> "plain"] @@ [c \in binary |-> "binary"] @@
    [c \in u256 |-> "u256"] @@ [c \in {"chain_id"} |-> "plain"]

\* The sort a dataset that names none has.
base_default_sort(columns) ==
    LET Kept(c) == /\ c \in DOMAIN columns
                   /\ ~ (c = "transaction_index" /\ "log_index" \in DOMAIN columns)
    IN SelectSeq(<<"block_number", "transaction_index", "log_index">>, Kept)

\* The trait's defaults, with the columns the struct has.
Dataset(plain, binary, u256) ==
    LET columns == Columns(plain, binary, u256)
    IN [columns |-> columns, default |-> DOMAIN columns, aliases |-> {},
        sort |-> base_default_sort(columns), required |-> {}, optional |-> {},
        arg_aliases |-> {}, blocks |-> "0:latest", by_range |-> FALSE,
        inner_request_size |-> 1, by_transaction |-> TRUE]

\* default_columns, as the columns left out or as the ones named.
Without(d, columns) == [d EXCEPT !.default = @ \ columns]
Keeping(d, columns) == [d EXCEPT !.default = columns]

AccessLists ==
    [sort |-> <<"block_number", "transaction_index", "entry_index",
     "storage_key_index">>] @@
    Without(Dataset({"block_number", "transaction_index", "transaction_type",
                     "entry_index", "storage_key_index"},
                    {"transaction_hash", "address", "storage_key"},
                    {}),
            {"transaction_type"})

AddressAppearances ==
    [sort |-> <<"block_number", "transaction_hash", "address",
     "relationship">>] @@
    Without(Dataset({"block_number", "relationship"},
                    {"block_hash", "transaction_hash", "address"},
                    {}),
            {"block_hash"})

ApprovalsForAll ==
    [aliases |-> {"erc721_approvals_for_all", "erc1155_approvals"},
     optional |-> {"Address", "Topic1", "Topic2", "FromAddress", "ToAddress"},
     arg_aliases |-> {<<"Contract", "Address">>}, by_range |-> TRUE,
     inner_request_size |-> 50] @@
    Without(Dataset({"block_number", "transaction_index", "log_index",
                     "approved"},
                    {"block_hash", "transaction_hash", "contract_address",
                     "owner", "operator"},
                    {}),
            {"block_hash"})

Authorizations ==
    [sort |-> <<"block_number", "transaction_index", "authorization_index">>] @@
    Without(Dataset({"block_number", "transaction_index",
                     "authorization_index", "authorization_chain_id", "nonce",
                     "y_parity"},
                    {"transaction_hash", "authority", "delegate_address", "r",
                     "s"},
                    {}),
            {"y_parity", "r", "s"})

BalanceDiffs ==
    Dataset({"block_number", "transaction_index"},
            {"transaction_hash", "address"},
            {"from_value", "to_value"})

BalanceReads ==
    Dataset({"block_number", "transaction_index"},
            {"transaction_hash", "address"},
            {"balance"})

Balances ==
    [sort |-> <<"block_number", "address">>, required |-> {"Address"},
     blocks |-> "latest", by_transaction |-> FALSE] @@
    Dataset({"block_number"},
            {"address"},
            {"balance"})

Blobs ==
    [sort |-> <<"block_number", "blob_index">>, by_transaction |-> FALSE] @@
    Without(Dataset({"block_number", "timestamp", "slot", "epoch",
                     "proposer_index", "blob_index", "transaction_index",
                     "blob_size", "blob_used_size", "rollup", "blob_source"},
                    {"versioned_hash", "kzg_commitment", "kzg_proof",
                     "transaction_hash", "from_address", "to_address", "blob"},
                    {}),
            {"epoch", "proposer_index", "kzg_proof", "transaction_index",
             "blob_used_size", "blob"})

Blocks ==
    Keeping(Dataset({"block_number", "gas_used", "gas_limit", "timestamp",
                     "difficulty", "size", "base_fee_per_gas",
                     "withdrawals_count", "withdrawals_amount_gwei",
                     "blob_gas_used", "excess_blob_gas", "l1_block_number",
                     "send_count"},
                    {"block_hash", "parent_hash", "uncles_hash", "author",
                     "state_root", "transactions_root", "receipts_root",
                     "extra_data", "logs_bloom", "mix_hash", "nonce",
                     "withdrawals_root", "parent_beacon_block_root",
                     "requests_hash", "send_root"},
                    {"total_difficulty"}),
            {"block_number", "block_hash", "timestamp", "author", "gas_used",
             "extra_data", "base_fee_per_gas", "withdrawals_count",
             "withdrawals_amount_gwei", "chain_id"})

CodeDiffs ==
    Dataset({"block_number", "transaction_index"},
            {"transaction_hash", "address", "from_value", "to_value"},
            {})

CodeReads ==
    Dataset({"block_number", "transaction_index"},
            {"transaction_hash", "contract_address", "code"},
            {})

Codes ==
    [sort |-> <<"block_number", "address">>, required |-> {"Address"},
     arg_aliases |-> {<<"Contract", "Address">>}, blocks |-> "latest",
     by_transaction |-> FALSE] @@
    Without(Dataset({"block_number", "is_delegated"},
                    {"address", "code", "delegate_address"},
                    {}),
            {"is_delegated", "delegate_address"})

ConsolidationRequests ==
    [sort |-> <<"block_number", "request_index">>, by_transaction |-> FALSE] @@
    Without(Dataset({"block_number", "timestamp", "slot", "epoch",
                     "proposer_index", "request_index",
                     "is_credential_upgrade"},
                    {"source_address", "source_pubkey", "target_pubkey"},
                    {}),
            {"epoch", "proposer_index"})

ContractInterfaces ==
    [aliases |-> {"erc165"}, sort |-> <<"block_number", "address">>,
     required |-> {"Address"}, arg_aliases |-> {<<"Contract", "Address">>},
     blocks |-> "latest", by_transaction |-> FALSE] @@
    Dataset({"block_number", "answers_true_to_everything", "supports_erc165",
             "supports_erc721", "supports_erc721_metadata",
             "supports_erc721_enumerable", "supports_erc1155",
             "supports_erc1155_metadata_uri", "supports_erc2981",
             "supports_erc1271"},
            {"address"},
            {})

Contracts ==
    [sort |-> <<"block_number", "create_index">>] @@
    Dataset({"block_number", "create_index", "n_init_code_bytes",
             "n_code_bytes"},
            {"block_hash", "transaction_hash", "contract_address", "deployer",
             "factory", "init_code", "code", "init_code_hash", "code_hash"},
            {})

DepositRequests ==
    [sort |-> <<"block_number", "request_index">>, by_transaction |-> FALSE] @@
    Without(Dataset({"block_number", "timestamp", "slot", "epoch",
                     "proposer_index", "request_index",
                     "withdrawal_credentials_type", "amount_gwei",
                     "deposit_index"},
                    {"pubkey", "withdrawal_credentials", "withdrawal_address",
                     "signature"},
                    {}),
            {"epoch", "proposer_index", "withdrawal_credentials", "signature"})

Erc1155Metadata ==
    [aliases |-> {"erc1155_uris"}, optional |-> {"Address", "Topic1"},
     arg_aliases |-> {<<"Contract", "Address">>}, by_range |-> TRUE,
     inner_request_size |-> 50] @@
    Without(Dataset({"block_number", "transaction_index", "log_index", "uri",
                     "is_uri_template", "is_uri_lossy"},
                    {"block_hash", "transaction_hash", "erc1155"},
                    {"token_id"}),
            {"block_hash"})

Erc1155Transfers ==
    [sort |-> <<"block_number", "log_index", "token_id_index">>,
     optional |-> {"Address", "Topic1", "FromAddress", "ToAddress"},
     arg_aliases |-> {<<"Contract", "Address">>}, by_range |-> TRUE,
     inner_request_size |-> 50] @@
    Without(Dataset({"block_number", "transaction_index", "log_index",
                     "token_id_index", "is_batch", "is_mint", "is_burn"},
                    {"block_hash", "transaction_hash", "erc1155", "operator",
                     "from_address", "to_address"},
                    {"token_id", "value"}),
            {"block_hash"})

Erc20Allowances ==
    [aliases |-> {"allowances"}, sort |-> <<"block_number", "erc20",
     "from_address", "to_address">>, required |-> {"Contract", "FromAddress",
     "ToAddress"}, blocks |-> "latest", by_transaction |-> FALSE] @@
    Dataset({"block_number"},
            {"erc20", "from_address", "to_address"},
            {"allowance"})

Erc20Approvals ==
    [optional |-> {"Address", "Topic0", "Topic1", "Topic2", "FromAddress",
     "ToAddress"}, arg_aliases |-> {<<"Contract", "Address">>},
     by_range |-> TRUE, inner_request_size |-> 50] @@
    Without(Dataset({"block_number", "transaction_index", "log_index"},
                    {"block_hash", "transaction_hash", "erc20", "from_address",
                     "to_address"},
                    {"value"}),
            {"block_hash"})

Erc20Balances ==
    [required |-> {"Contract", "Address"}, blocks |-> "latest",
     by_transaction |-> FALSE] @@
    Dataset({"block_number"},
            {"erc20", "address"},
            {"balance"})

Erc20Metadata ==
    [sort |-> <<"symbol", "block_number">>, required |-> {"Address"},
     arg_aliases |-> {<<"Contract", "Address">>}, blocks |-> "latest",
     by_transaction |-> FALSE] @@
    Dataset({"block_number", "name", "symbol", "decimals"},
            {"erc20"},
            {})

Erc20Supplies ==
    [sort |-> <<"erc20", "block_number">>, required |-> {"Address"},
     arg_aliases |-> {<<"Contract", "Address">>}, blocks |-> "latest",
     by_transaction |-> FALSE] @@
    Dataset({"block_number"},
            {"erc20"},
            {"total_supply"})

Erc20Transfers ==
    [optional |-> {"Address", "Topic0", "Topic1", "Topic2", "FromAddress",
     "ToAddress"}, arg_aliases |-> {<<"Contract", "Address">>},
     by_range |-> TRUE, inner_request_size |-> 50] @@
    Without(Dataset({"block_number", "transaction_index", "log_index"},
                    {"block_hash", "transaction_hash", "erc20", "from_address",
                     "to_address"},
                    {"value"}),
            {"block_hash"})

Erc20WrapperEvents ==
    [aliases |-> {"wrapper_events", "weth_events"}, optional |-> {"Address",
     "Topic1"}, arg_aliases |-> {<<"Contract", "Address">>}, by_range |-> TRUE,
     inner_request_size |-> 50] @@
    Without(Dataset({"block_number", "transaction_index", "log_index",
                     "event_type"},
                    {"block_hash", "transaction_hash", "erc20", "account"},
                    {"value"}),
            {"block_hash"})

Erc2612Nonces ==
    [sort |-> <<"block_number", "erc20", "address">>, required |-> {"Contract",
     "Address"}, blocks |-> "latest", by_transaction |-> FALSE] @@
    Without(Dataset({"block_number"},
                    {"erc20", "address", "domain_separator"},
                    {"nonce"}),
            {"domain_separator"})

Erc4626Metadata ==
    [sort |-> <<"erc4626", "block_number">>, required |-> {"Address"},
     arg_aliases |-> {<<"Contract", "Address">>}, blocks |-> "latest",
     by_transaction |-> FALSE] @@
    Dataset({"block_number"},
            {"erc4626", "asset"},
            {"total_assets", "total_supply"})

Erc4626VaultEvents ==
    [aliases |-> {"erc4626_events"}, optional |-> {"Address", "Topic1"},
     arg_aliases |-> {<<"Contract", "Address">>}, by_range |-> TRUE,
     inner_request_size |-> 50] @@
    Without(Dataset({"block_number", "transaction_index", "log_index",
                     "event_name"},
                    {"block_hash", "transaction_hash", "vault", "sender",
                     "owner", "receiver"},
                    {"assets", "shares"}),
            {"block_hash"})

Erc721Metadata ==
    [sort |-> <<"symbol", "block_number">>, required |-> {"Address"},
     arg_aliases |-> {<<"Contract", "Address">>}, by_transaction |-> FALSE] @@
    Dataset({"block_number", "name", "symbol"},
            {"erc721"},
            {})

Erc721Transfers ==
    [optional |-> {"Address", "FromAddress", "ToAddress"},
     arg_aliases |-> {<<"Contract", "Address">>}, by_range |-> TRUE,
     inner_request_size |-> 50] @@
    Without(Dataset({"block_number", "transaction_index", "log_index"},
                    {"block_hash", "transaction_hash", "erc20", "from_address",
                     "to_address"},
                    {"token_id"}),
            {"block_hash"})

Erc777Transfers ==
    [optional |-> {"Address", "Topic1", "Topic2", "Topic3"},
     arg_aliases |-> {<<"Contract", "Address">>}, by_range |-> TRUE,
     inner_request_size |-> 50] @@
    Without(Dataset({"block_number", "transaction_index", "log_index",
                     "event_name", "is_operator_send"},
                    {"block_hash", "transaction_hash", "erc777", "operator",
                     "from_address", "to_address", "data", "operator_data"},
                    {"amount"}),
            {"block_hash"})

EthCalls ==
    [sort |-> <<"block_number", "contract_address">>, required |-> {"Contract",
     "CallData"}, arg_aliases |-> {<<"Address", "Contract">>, <<"ToAddress",
     "Contract">>}, blocks |-> "latest", by_transaction |-> FALSE] @@
    Without(Dataset({"block_number"},
                    {"contract_address", "call_data", "call_data_hash",
                     "output_data", "output_data_hash"},
                    {}),
            {"call_data_hash", "output_data_hash"})

FourByteCounts ==
    [aliases |-> {"4byte_counts"}] @@
    Dataset({"block_number", "transaction_index", "size", "count"},
            {"transaction_hash", "signature"},
            {})

GethBalanceDiffs ==
    Dataset({"block_number", "transaction_index"},
            {"transaction_hash", "address"},
            {"from_value", "to_value"})

GethCalls ==
    Dataset({"typ", "error", "block_number", "transaction_index",
             "trace_address"},
            {"from_address", "to_address", "input", "output",
             "transaction_hash"},
            {"value", "gas", "gas_used"})

GethCodeDiffs ==
    Dataset({"block_number", "transaction_index"},
            {"transaction_hash", "address", "from_value", "to_value"},
            {})

GethNonceDiffs ==
    Dataset({"block_number", "transaction_index", "from_value", "to_value"},
            {"transaction_hash", "address"},
            {})

GethOpcodes ==
    Without(Dataset({"block_number", "transaction_index", "trace_address",
                     "depth", "error", "gas", "gas_cost", "op", "pc",
                     "refund_counter", "memory", "stack", "storage"},
                    {"transaction_hash", "return_data"},
                    {}),
            {"memory", "stack", "storage"})

GethStorageDiffs ==
    Dataset({"block_number", "transaction_index"},
            {"transaction_hash", "address", "slot", "from_value", "to_value"},
            {})

JavascriptTraces ==
    [aliases |-> {"js_traces"}] @@
    Dataset({"block_number", "transaction_index", "output"},
            {"transaction_hash"},
            {})

Logs ==
    [aliases |-> {"events"}, optional |-> {"Address", "Topic0", "Topic1",
     "Topic2", "Topic3"}, arg_aliases |-> {<<"Contract", "Address">>},
     by_range |-> TRUE, inner_request_size |-> 50] @@
    Without(Dataset({"block_number", "transaction_index", "log_index",
                     "n_data_bytes"},
                    {"block_hash", "transaction_hash", "address", "topic0",
                     "topic1", "topic2", "topic3", "data"},
                    {}),
            {"block_hash"})

NativeTransfers ==
    [optional |-> {"FromAddress", "ToAddress"}] @@
    Dataset({"block_number", "transaction_index", "transfer_index"},
            {"block_hash", "transaction_hash", "from_address", "to_address"},
            {"value"})

NonceDiffs ==
    Dataset({"block_number", "transaction_index", "from_value", "to_value"},
            {"transaction_hash", "address"},
            {})

NonceReads ==
    Dataset({"block_number", "transaction_index", "nonce"},
            {"transaction_hash", "address"},
            {})

Nonces ==
    [sort |-> <<"block_number", "address">>, required |-> {"Address"},
     blocks |-> "latest", by_transaction |-> FALSE] @@
    Dataset({"block_number", "nonce"},
            {"address"},
            {})

ProxySlots ==
    [aliases |-> {"erc1967_slots"}, sort |-> <<"block_number", "address">>,
     required |-> {"Address"}, arg_aliases |-> {<<"Contract", "Address">>},
     blocks |-> "latest", by_transaction |-> FALSE] @@
    Dataset({"block_number"},
            {"address", "implementation", "admin", "beacon"},
            {})

ProxyUpgrades ==
    [aliases |-> {"erc1967_events"}, optional |-> {"Address"},
     arg_aliases |-> {<<"Contract", "Address">>}, by_range |-> TRUE,
     inner_request_size |-> 50] @@
    Without(Dataset({"block_number", "transaction_index", "log_index",
                     "event_name"},
                    {"block_hash", "transaction_hash", "proxy_address",
                     "implementation", "beacon", "previous_admin",
                     "new_admin"},
                    {}),
            {"block_hash"})

Slots ==
    [aliases |-> {"storages"}, sort |-> <<"block_number", "address", "slot">>,
     required |-> {"Address", "Slot"}, arg_aliases |-> {<<"Contract",
     "Address">>}, blocks |-> "latest", by_transaction |-> FALSE] @@
    Dataset({"block_number"},
            {"address", "slot", "value"},
            {})

StorageDiffs ==
    [aliases |-> {"slot_diffs"}] @@
    Dataset({"block_number", "transaction_index"},
            {"transaction_hash", "address", "slot", "from_value", "to_value"},
            {})

StorageReads ==
    [aliases |-> {"slot_reads"}] @@
    Dataset({"block_number", "transaction_index"},
            {"transaction_hash", "contract_address", "slot", "value"},
            {})

TraceCalls ==
    [required |-> {"Contract", "CallData"}, arg_aliases |-> {<<"Address",
     "Contract">>, <<"ToAddress", "Contract">>}, blocks |-> "latest",
     by_transaction |-> FALSE] @@
    Dataset({"block_number", "transaction_index", "action_value", "action_gas",
             "action_call_type", "action_reward_type", "action_type",
             "result_gas_used", "trace_address", "subtraces", "error"},
            {"action_from", "action_to", "action_input", "action_init",
             "result_output", "result_code", "result_address", "tx_to_address",
             "tx_call_data"},
            {})

Traces ==
    [optional |-> {"FromAddress", "ToAddress"}] @@
    Dataset({"action_value", "action_gas", "action_call_type",
             "action_reward_type", "action_type", "result_gas_used",
             "trace_address", "subtraces", "transaction_index", "block_number",
             "error"},
            {"action_from", "action_to", "action_input", "action_init",
             "result_output", "result_code", "result_address",
             "transaction_hash", "block_hash"},
            {})

Transactions ==
    [aliases |-> {"txs"}, optional |-> {"FromAddress", "ToAddress"}] @@
    Keeping(Dataset({"block_number", "transaction_index", "nonce", "gas_limit",
                     "gas_used", "gas_price", "transaction_type",
                     "max_priority_fee_per_gas", "max_fee_per_gas", "success",
                     "n_input_bytes", "n_input_zero_bytes",
                     "n_input_nonzero_bytes", "n_rlp_bytes", "timestamp", "v",
                     "y_parity", "tx_chain_id", "chain_family",
                     "n_access_list_addresses", "n_access_list_storage_keys",
                     "n_blob_versioned_hashes", "blob_gas_used",
                     "n_authorizations", "is_system_tx",
                     "deposit_receipt_version", "l1_gas_used", "l1_gas_price",
                     "l1_fee_scalar", "l1_base_fee_scalar",
                     "l1_blob_base_fee_scalar", "operator_fee_scalar",
                     "operator_fee_constant", "gas_used_for_l1",
                     "gas_used_for_l2"},
                    {"transaction_hash", "from_address", "to_address", "input",
                     "block_hash", "r", "s", "blob_versioned_hashes",
                     "source_hash", "request_id", "ticket_id", "refund_to"},
                    {"value", "max_fee_per_blob_gas", "blob_gas_price", "mint",
                     "l1_fee", "l1_blob_base_fee"}),
            {"block_number", "transaction_index", "transaction_hash", "nonce",
             "from_address", "to_address", "value", "input", "gas_limit",
             "gas_used", "gas_price", "transaction_type",
             "max_priority_fee_per_gas", "max_fee_per_gas", "success",
             "n_input_bytes", "n_input_zero_bytes", "n_input_nonzero_bytes",
             "chain_id"})

VmTraces ==
    [aliases |-> {"opcode_traces"}, sort |-> <<"block_number",
     "transaction_index", "used">>] @@
    Without(Dataset({"block_number", "transaction_index", "pc", "cost", "used",
                     "mem_off", "op"},
                    {"transaction_hash", "push", "mem_data", "storage_key",
                     "storage_val"},
                    {}),
            {"transaction_hash", "push", "mem_off", "mem_data", "storage_key",
             "storage_val"})

WithdrawalRequests ==
    [sort |-> <<"block_number", "request_index">>, by_transaction |-> FALSE] @@
    Without(Dataset({"block_number", "timestamp", "slot", "epoch",
                     "proposer_index", "request_index", "amount_gwei",
                     "is_full_exit"},
                    {"source_address", "validator_pubkey"},
                    {}),
            {"epoch", "proposer_index"})

Withdrawals ==
    [sort |-> <<"block_number", "withdrawal_index">>, by_transaction |-> FALSE] @@
    Without(Dataset({"block_number", "timestamp", "withdrawal_index",
                     "validator_index", "amount_gwei"},
                    {"block_hash", "address"},
                    {"amount_wei"}),
            {"block_hash", "amount_wei"})

\* define_datatypes!, by name().
Declared ==
    "access_lists" :> AccessLists @@
    "address_appearances" :> AddressAppearances @@
    "approvals_for_all" :> ApprovalsForAll @@
    "authorizations" :> Authorizations @@
    "balance_diffs" :> BalanceDiffs @@
    "balance_reads" :> BalanceReads @@
    "balances" :> Balances @@
    "blobs" :> Blobs @@
    "blocks" :> Blocks @@
    "code_diffs" :> CodeDiffs @@
    "code_reads" :> CodeReads @@
    "codes" :> Codes @@
    "consolidation_requests" :> ConsolidationRequests @@
    "contract_interfaces" :> ContractInterfaces @@
    "contracts" :> Contracts @@
    "deposit_requests" :> DepositRequests @@
    "erc1155_metadata" :> Erc1155Metadata @@
    "erc1155_transfers" :> Erc1155Transfers @@
    "erc20_allowances" :> Erc20Allowances @@
    "erc20_approvals" :> Erc20Approvals @@
    "erc20_balances" :> Erc20Balances @@
    "erc20_metadata" :> Erc20Metadata @@
    "erc20_supplies" :> Erc20Supplies @@
    "erc20_transfers" :> Erc20Transfers @@
    "erc20_wrapper_events" :> Erc20WrapperEvents @@
    "erc2612_nonces" :> Erc2612Nonces @@
    "erc4626_metadata" :> Erc4626Metadata @@
    "erc4626_vault_events" :> Erc4626VaultEvents @@
    "erc721_metadata" :> Erc721Metadata @@
    "erc721_transfers" :> Erc721Transfers @@
    "erc777_transfers" :> Erc777Transfers @@
    "eth_calls" :> EthCalls @@
    "four_byte_counts" :> FourByteCounts @@
    "geth_balance_diffs" :> GethBalanceDiffs @@
    "geth_calls" :> GethCalls @@
    "geth_code_diffs" :> GethCodeDiffs @@
    "geth_nonce_diffs" :> GethNonceDiffs @@
    "geth_opcodes" :> GethOpcodes @@
    "geth_storage_diffs" :> GethStorageDiffs @@
    "javascript_traces" :> JavascriptTraces @@
    "logs" :> Logs @@
    "native_transfers" :> NativeTransfers @@
    "nonce_diffs" :> NonceDiffs @@
    "nonce_reads" :> NonceReads @@
    "nonces" :> Nonces @@
    "proxy_slots" :> ProxySlots @@
    "proxy_upgrades" :> ProxyUpgrades @@
    "slots" :> Slots @@
    "storage_diffs" :> StorageDiffs @@
    "storage_reads" :> StorageReads @@
    "trace_calls" :> TraceCalls @@
    "traces" :> Traces @@
    "transactions" :> Transactions @@
    "vm_traces" :> VmTraces @@
    "withdrawal_requests" :> WithdrawalRequests @@
    "withdrawals" :> Withdrawals
=============================================================================
