---------------------------- MODULE LogDatasets ----------------------------
(***************************************************************************)
(* The datasets made of event logs: the filter each sends to the node, the *)
(* logs it keeps, the rows it makes of them, and LogEvents, which collects *)
(* several of them with one request.                                       *)
(*                                                                         *)
(* A log is [block, tx, index, mined, address, topics, size, body]: mined  *)
(* tells whether the node gave it its position, size is that of its data   *)
(* in bytes and body what the ABI decoder makes of them (<<>> if nothing). *)
(* A parameter of a request is [width, val], as wide as the user typed it; *)
(* a topic is as good as its value.                                        *)
(***************************************************************************)
EXTENDS Node

Transfer == "Transfer"
Approval == "Approval"
ApprovalForAll == "ApprovalForAll"
Wrapper == {"WrapperDeposit", "Withdrawal"}
Erc1155 == {"TransferSingle", "TransferBatch"}
Erc777 == {"Sent", "Minted", "Burned"}
Vault == {"VaultDeposit", "Withdraw"}
Proxy == {"Upgraded", "BeaconUpgraded", "AdminChanged"}

-----------------------------------------------------------------------------
(* Parameters                                                              *)

Topic == <<"topic0", "topic1", "topic2", "topic3">>

\* A position of a filter is the set of topics it takes, {} for any.
\* fixed_from_slice::<B256> of an optional dimension.
topic_dim(p, d) ==
  IF d \notin DOMAIN p THEN Ok({}) ELSE IF p[d].width = 32 THEN Ok({p[d].val}) ELSE Err

\* address_dim_as_topic of an optional dimension: padded on the left.
address_dim(p, d) ==
  IF d \notin DOMAIN p THEN Ok({}) ELSE IF p[d].width <= 32 THEN Ok({p[d].val}) ELSE Err

topic_matches(log, i, p, d) ==
  d \in DOMAIN p => p[d].width = 32 /\ i < Len(log.topics) /\ log.topics[i + 1] = p[d].val

address_topic_matches(log, i, p, d) ==
  d \in DOMAIN p => p[d].width <= 32 /\ i < Len(log.topics) /\ log.topics[i + 1] = p[d].val

log_address_matches(log, p) ==
  "address" \in DOMAIN p => p["address"].width = 20 /\ log.address = p["address"].val

\* A filter whose topics are ts, a sequence of results; the address is checked too.
Filter(p, ts) ==
  IF /\ "address" \in DOMAIN p => p["address"].width = 20
     /\ \A i \in DOMAIN ts : ts[i].ok
  THEN Ok([range |-> p["block_range"],
           address |-> IF "address" \in DOMAIN p THEN {p["address"].val} ELSE {},
           topics |-> [i \in DOMAIN ts |-> ts[i].val]])
  ELSE Err

ethers_log_filter(p) == Filter(p, [i \in 1 .. 4 |-> topic_dim(p, Topic[i])])

\* Filter { topics, ..request.ethers_log_filter()? }: its widths are checked, its topics replaced.
WithTopics(p, ts) == IF ethers_log_filter(p).ok THEN Filter(p, ts) ELSE Err

-----------------------------------------------------------------------------
(* What a log is                                                           *)

Signed(log, sigs) == log.topics # <<>> /\ log.topics[1] \in sigs

\* Mutant: the shape of a transfer is not looked at closely.
Mutis_erc20_transfer(log) == Len(log.topics) >= 3 /\ Signed(log, {Transfer})

is_erc20_transfer(log) == Len(log.topics) = 3 /\ log.size = 32 /\ Signed(log, {Transfer})

is_erc20_approval(log) == Len(log.topics) = 3 /\ log.size = 32 /\ Signed(log, {Approval})

is_erc721_transfer(log) == Len(log.topics) = 4 /\ log.size = 0 /\ Signed(log, {Transfer})

is_wrapper_event(log) == Len(log.topics) = 2 /\ log.size = 32 /\ Signed(log, Wrapper)

is_approval_for_all(log) == Len(log.topics) = 3 /\ log.size = 32 /\ Signed(log, {ApprovalForAll})

is_erc1155_transfer(log) == Len(log.topics) = 4 /\ Signed(log, Erc1155)

is_erc777_transfer_event(log) ==
  Signed(log, Erc777) /\ Len(log.topics) = (IF log.topics[1] = "Sent" THEN 4 ELSE 3)

is_erc4626_vault_event(log) ==
  /\ log.size = 64
  /\ Signed(log, Vault)
  /\ Len(log.topics) = (IF log.topics[1] = "VaultDeposit" THEN 3 ELSE 4)

is_erc1155_uri(log) == Len(log.topics) = 2 /\ Signed(log, {"URI"})

is_proxy_upgrade(log) ==
  \/ Signed(log, {"Upgraded", "BeaconUpgraded"}) /\ (Len(log.topics) >= 2 \/ log.size = 32)
  \/ Signed(log, {"AdminChanged"}) /\ log.size = 64

-----------------------------------------------------------------------------
(* Rows: [log, item, cols]; a log that was given no position makes none.   *)

Row(log, item, cols) == [log |-> <<log.block, log.index>>, item |-> item, cols |-> cols]

\* --event-signature: a log that does not decode makes no row.
process_logs(log, decoder) ==
  IF decoder /\ log.body = <<>> THEN <<>>
  ELSE <<Row(log, 0, [address |-> log.address, topics |-> log.topics])>>

process_erc20_transfers(log) ==
  <<Row(log, 0, [erc20 |-> log.address, from |-> log.topics[2], to |-> log.topics[3],
                 value |-> log.body])>>

process_erc20_approval(log) ==
  <<Row(log, 0, [erc20 |-> log.address, from |-> log.topics[2], to |-> log.topics[3],
                 value |-> log.body])>>

process_erc721_transfers(log) ==
  <<Row(log, 0, [erc20 |-> log.address, from |-> log.topics[2], to |-> log.topics[3],
                 token_id |-> log.topics[4]])>>

process_wrapper_events(log) ==
  IF is_wrapper_event(log)
  THEN <<Row(log, 0, [event_type |-> log.topics[1], account |-> log.topics[2], value |-> log.body])>>
  ELSE <<>>

\* Any word but zero is true.
process_approvals_for_all(log) ==
  IF is_approval_for_all(log)
  THEN <<Row(log, 0, [owner |-> log.topics[2], operator |-> log.topics[3],
                      approved |-> log.body # <<0>>])>>
  ELSE <<>>

\* decode_transfer: the pairs of a log, none when ids and values differ in number.
decode_transfer(log) ==
  IF log.body = <<>> THEN <<>>
  ELSE IF log.topics[1] = "TransferSingle" THEN <<log.body>>
  ELSE IF Len(log.body[1]) # Len(log.body[2]) THEN <<>>
  ELSE [i \in DOMAIN log.body[1] |-> <<log.body[1][i], log.body[2][i]>>]

process_erc1155_transfers(log) ==
  [i \in DOMAIN decode_transfer(log) |->
     Row(log, i - 1, [operator |-> log.topics[2], from |-> log.topics[3], to |-> log.topics[4],
                      pair |-> decode_transfer(log)[i], is_batch |-> log.topics[1] = "TransferBatch"])]

\* Text that is not UTF-8 is kept and marked; body is <<text, valid>>.
process_erc1155_uris(log) ==
  IF ~is_erc1155_uri(log) \/ log.body = <<>> THEN <<>>
  ELSE <<Row(log, 0, [token_id |-> log.topics[2], uri |-> log.body[1], is_uri_lossy |-> ~log.body[2]])>>

\* decode_erc777_event: a mint has no sender and a burn no receiver.
process_erc777_transfers(log) ==
  IF ~is_erc777_transfer_event(log) \/ log.body = <<>> THEN <<>>
  ELSE LET from == IF log.topics[1] = "Minted" THEN {} ELSE {log.topics[3]}
           to == IF log.topics[1] = "Burned" THEN {} ELSE {log.topics[Len(log.topics)]}
       IN <<Row(log, 0, [event_name |-> log.topics[1], operator |-> log.topics[2],
                         from |-> from, to |-> to,
                         is_operator_send |-> {f # log.topics[2] : f \in from}])>>

process_vault_events(log) ==
  IF ~is_erc4626_vault_event(log) THEN <<>>
  ELSE LET withdraw == log.topics[1] = "Withdraw"
       IN <<Row(log, 0, [event_name |-> log.topics[1], sender |-> log.topics[2],
                         owner |-> log.topics[IF withdraw THEN 4 ELSE 3],
                         receiver |-> IF withdraw THEN {log.topics[3]} ELSE {}])>>

\* decode_proxy_upgrade: the address is the first topic after the signature or, failing that, a
\* clean word of data; body is <<>> for a word that is not an address.
process_proxy_upgrades(log) ==
  LET argument == IF Len(log.topics) >= 2 THEN <<log.topics[2]>>
                  ELSE IF log.size = 32 THEN log.body ELSE <<>>
      values == IF Signed(log, {"AdminChanged"})
                THEN IF log.size = 64 THEN log.body ELSE <<>>
                ELSE argument
  IN IF ~Signed(log, Proxy) \/ values = <<>> THEN <<>>
     ELSE <<Row(log, 0, [event_name |-> log.topics[1], addresses |-> values])>>

-----------------------------------------------------------------------------
(* The datasets on their own                                               *)

\* transform, and the guard every process_* begins with: a log without its position makes no row.
transform(logs, rows(_)) == FlattenSeq([i \in DOMAIN logs |-> IF logs[i].mined THEN rows(logs[i]) ELSE <<>>])

by_block(node, f, keep(_), rows(_)) ==
  IF f.ok THEN Ok(transform(SelectSeq(get_logs(node, f.val), keep), rows)) ELSE Err

by_transaction(node, p, keep(_), rows(_)) ==
  Then(get_transaction_logs(node, p["transaction"]), LAMBDA logs : transform(SelectSeq(logs, keep), rows))

Sig(sigs) == Ok(sigs)

logs_by_block(node, p, decoder) ==
  by_block(node, ethers_log_filter(p), LAMBDA log : TRUE, LAMBDA log : process_logs(log, decoder))
logs_by_transaction(node, p, decoder) ==
  by_transaction(node, p,
    LAMBDA log : log_address_matches(log, p) /\ \A i \in 0 .. 3 : topic_matches(log, i, p, Topic[i + 1]),
    LAMBDA log : process_logs(log, decoder))

\* The topics of erc20_transfers, erc20_approvals and erc721_transfers.
from_to_filter(p, sig) ==
  WithTopics(p, <<Sig({sig}), address_dim(p, "from_address"), address_dim(p, "to_address"), Ok({})>>)
from_to_matches(log, p) ==
  /\ log_address_matches(log, p)
  /\ address_topic_matches(log, 1, p, "from_address")
  /\ address_topic_matches(log, 2, p, "to_address")

erc20_transfers_by_block(node, p) ==
  by_block(node, from_to_filter(p, Transfer), is_erc20_transfer, process_erc20_transfers)

\* Mutant: the dimensions are left to the node, which never sees them.
Muterc20_transfers_by_transaction(node, p) ==
  by_transaction(node, p, is_erc20_transfer, process_erc20_transfers)

erc20_transfers_by_transaction(node, p) ==
  by_transaction(node, p, LAMBDA log : is_erc20_transfer(log) /\ from_to_matches(log, p),
                 process_erc20_transfers)

erc20_approvals_by_block(node, p) ==
  by_block(node, from_to_filter(p, Approval), is_erc20_approval, process_erc20_approval)
erc20_approvals_by_transaction(node, p) ==
  by_transaction(node, p, LAMBDA log : is_erc20_approval(log) /\ from_to_matches(log, p),
                 process_erc20_approval)

erc721_transfers_by_block(node, p) ==
  by_block(node, from_to_filter(p, Transfer), is_erc721_transfer, process_erc721_transfers)
erc721_transfers_by_transaction(node, p) ==
  by_transaction(node, p, LAMBDA log : is_erc721_transfer(log) /\ from_to_matches(log, p),
                 process_erc721_transfers)

account_filter(p, sigs) == WithTopics(p, <<Sig(sigs), topic_dim(p, "topic1"), Ok({}), Ok({})>>)
account_matches(log, p) == log_address_matches(log, p) /\ topic_matches(log, 1, p, "topic1")

erc20_wrapper_events_by_block(node, p) ==
  by_block(node, account_filter(p, Wrapper), is_wrapper_event, process_wrapper_events)
erc20_wrapper_events_by_transaction(node, p) ==
  by_transaction(node, p, LAMBDA log : is_wrapper_event(log) /\ account_matches(log, p),
                 process_wrapper_events)

erc4626_vault_events_by_block(node, p) ==
  by_block(node, account_filter(p, Vault), is_erc4626_vault_event, process_vault_events)
erc4626_vault_events_by_transaction(node, p) ==
  by_transaction(node, p, LAMBDA log : is_erc4626_vault_event(log) /\ account_matches(log, p),
                 process_vault_events)

erc1155_metadata_by_block(node, p) ==
  by_block(node, account_filter(p, {"URI"}), is_erc1155_uri, process_erc1155_uris)
erc1155_metadata_by_transaction(node, p) ==
  by_transaction(node, p, LAMBDA log : is_erc1155_uri(log) /\ account_matches(log, p),
                 process_erc1155_uris)

\* --topic1 and --from-address select one position, as do --topic2 and --to-address.
approvals_for_all_by_block(node, p) ==
  LET either(topic, address) == IF topic \in DOMAIN p THEN topic_dim(p, topic) ELSE address_dim(p, address)
  IN IF \/ {"topic1", "from_address"} \subseteq DOMAIN p
        \/ {"topic2", "to_address"} \subseteq DOMAIN p
     THEN Err
     ELSE by_block(node,
            WithTopics(p, <<Sig({ApprovalForAll}), either("topic1", "from_address"),
                            either("topic2", "to_address"), Ok({})>>),
            is_approval_for_all, process_approvals_for_all)

approvals_for_all_by_transaction(node, p) ==
  LET either(log, i, topic, address) ==
        IF topic \in DOMAIN p THEN topic_matches(log, i, p, topic)
        ELSE address_topic_matches(log, i, p, address)
  IN by_transaction(node, p,
       LAMBDA log : /\ is_approval_for_all(log)
                    /\ log_address_matches(log, p)
                    /\ either(log, 1, "topic1", "from_address")
                    /\ either(log, 2, "topic2", "to_address"),
       process_approvals_for_all)

erc1155_transfers_by_block(node, p) ==
  by_block(node,
    WithTopics(p, <<Sig(Erc1155), topic_dim(p, "topic1"), address_dim(p, "from_address"),
                    address_dim(p, "to_address")>>),
    is_erc1155_transfer, process_erc1155_transfers)
erc1155_transfers_by_transaction(node, p) ==
  by_transaction(node, p,
    LAMBDA log : /\ is_erc1155_transfer(log)
                 /\ log_address_matches(log, p)
                 /\ topic_matches(log, 1, p, "topic1")
                 /\ address_topic_matches(log, 2, p, "from_address")
                 /\ address_topic_matches(log, 3, p, "to_address"),
    process_erc1155_transfers)

erc777_transfers_by_block(node, p) ==
  by_block(node,
    WithTopics(p, <<Sig(Erc777), topic_dim(p, "topic1"), topic_dim(p, "topic2"), topic_dim(p, "topic3")>>),
    is_erc777_transfer_event, process_erc777_transfers)
erc777_transfers_by_transaction(node, p) ==
  by_transaction(node, p,
    LAMBDA log : /\ is_erc777_transfer_event(log)
                 /\ log_address_matches(log, p)
                 /\ \A i \in 1 .. 3 : topic_matches(log, i, p, Topic[i + 1]),
    process_erc777_transfers)

proxy_upgrades_by_block(node, p) ==
  by_block(node, WithTopics(p, <<Sig(Proxy), Ok({}), Ok({}), Ok({})>>), is_proxy_upgrade,
           process_proxy_upgrades)
proxy_upgrades_by_transaction(node, p) ==
  by_transaction(node, p, LAMBDA log : is_proxy_upgrade(log) /\ log_address_matches(log, p),
                 process_proxy_upgrades)

scalar_by_block(dt, node, p, decoder) ==
  CASE dt = "logs" -> logs_by_block(node, p, decoder)
    [] dt = "erc20_transfers" -> erc20_transfers_by_block(node, p)
    [] dt = "erc20_approvals" -> erc20_approvals_by_block(node, p)
    [] dt = "erc721_transfers" -> erc721_transfers_by_block(node, p)
    [] dt = "erc20_wrapper_events" -> erc20_wrapper_events_by_block(node, p)
    [] dt = "approvals_for_all" -> approvals_for_all_by_block(node, p)
    [] dt = "erc1155_transfers" -> erc1155_transfers_by_block(node, p)
    [] dt = "erc777_transfers" -> erc777_transfers_by_block(node, p)
    [] dt = "erc4626_vault_events" -> erc4626_vault_events_by_block(node, p)
    [] dt = "erc1155_metadata" -> erc1155_metadata_by_block(node, p)
    [] dt = "proxy_upgrades" -> proxy_upgrades_by_block(node, p)

scalar_by_transaction(dt, node, p, decoder) ==
  CASE dt = "logs" -> logs_by_transaction(node, p, decoder)
    [] dt = "erc20_transfers" -> erc20_transfers_by_transaction(node, p)
    [] dt = "erc20_approvals" -> erc20_approvals_by_transaction(node, p)
    [] dt = "erc721_transfers" -> erc721_transfers_by_transaction(node, p)
    [] dt = "erc20_wrapper_events" -> erc20_wrapper_events_by_transaction(node, p)
    [] dt = "approvals_for_all" -> approvals_for_all_by_transaction(node, p)
    [] dt = "erc1155_transfers" -> erc1155_transfers_by_transaction(node, p)
    [] dt = "erc777_transfers" -> erc777_transfers_by_transaction(node, p)
    [] dt = "erc4626_vault_events" -> erc4626_vault_events_by_transaction(node, p)
    [] dt = "erc1155_metadata" -> erc1155_metadata_by_transaction(node, p)
    [] dt = "proxy_upgrades" -> proxy_upgrades_by_transaction(node, p)

-----------------------------------------------------------------------------
(* LogEvents                                                               *)

\* pinned_topic as a topic: what a member asks for at a position, Err for nothing or too wide.
pinned_topic(dt, pos, p) ==
  LET dim == CASE dt = "logs" -> Topic[pos + 1]
               [] dt = "erc20_wrapper_events" -> IF pos = 1 THEN "topic1" ELSE "none"
               [] OTHER -> IF pos = 1 THEN "from_address" ELSE IF pos = 2 THEN "to_address" ELSE "none"
  IN IF dim \notin DOMAIN p \/ ~address_dim(p, dim).ok THEN Err ELSE Ok(p[dim].val)

\* Mutant: one member that asks is enough.
Mutnarrow_agreed_topics(p, active) ==
  [pos \in 1 .. 3 |->
     LET asked == {pinned_topic(dt, pos, p) : dt \in active} \ {Err}
     IN IF asked = {} THEN {} ELSE {(CHOOSE a \in asked : TRUE).val}]

\* narrow_agreed_topics: a position every member pins to one value.
narrow_agreed_topics(p, active) ==
  [pos \in 1 .. 3 |->
     LET asked == {pinned_topic(dt, pos, p) : dt \in active}
     IN {v \in {a.val : a \in asked \ {Err}} : asked = {Ok(v)}}]

build_union_filter(p, active) ==
  LET user == IF "topic0" \in DOMAIN p THEN {p["topic0"].val} ELSE {}
      wanted == user \cup (IF active \cap {"erc20_transfers", "erc721_transfers"} # {} THEN {Transfer} ELSE {})
                     \cup (IF "erc20_approvals" \in active THEN {Approval} ELSE {})
                     \cup (IF "erc20_wrapper_events" \in active THEN Wrapper ELSE {})
      topic0 == IF "logs" \in active /\ user = {} THEN {} ELSE wanted
      base == ethers_log_filter(p)
  IN IF base.ok THEN Ok([base.val EXCEPT !.topics = <<topic0>> \o narrow_agreed_topics(p, active)])
     ELSE Err

\* The test a member makes of a log, wherever it comes from.
shape(dt, log) ==
  CASE dt = "logs" -> TRUE
    [] dt = "erc20_transfers" -> is_erc20_transfer(log)
    [] dt = "erc20_approvals" -> is_erc20_approval(log)
    [] dt = "erc721_transfers" -> is_erc721_transfer(log)
    [] dt = "erc20_wrapper_events" -> is_wrapper_event(log)

rows_of(dt, log, decoder) ==
  CASE dt = "logs" -> process_logs(log, decoder)
    [] dt = "erc20_transfers" -> process_erc20_transfers(log)
    [] dt = "erc20_approvals" -> process_erc20_approval(log)
    [] dt = "erc721_transfers" -> process_erc721_transfers(log)
    [] dt = "erc20_wrapper_events" -> process_wrapper_events(log)

\* matches_*: the test of a dataset and the filter it would have sent, but for the address.
member_matches(dt, log, p) ==
  shape(dt, log) /\
  CASE dt = "logs" -> \A i \in 0 .. 3 : topic_matches(log, i, p, Topic[i + 1])
    [] dt = "erc20_wrapper_events" -> topic_matches(log, 1, p, "topic1")
    [] OTHER -> /\ address_topic_matches(log, 1, p, "from_address")
                /\ address_topic_matches(log, 2, p, "to_address")

\* extract and fan_out_block: the rows of each member asked for.
log_events_by_block(active, node, p, decoder) ==
  LET f == build_union_filter(p, active)
  IN IF ~f.ok THEN Err
     ELSE Ok([dt \in active |->
            transform(SelectSeq(get_logs(node, f.val), LAMBDA log : member_matches(dt, log, p)),
                      LAMBDA log : rows_of(dt, log, decoder))])

\* extract and fan_out_transaction: no dimension is looked at.
log_events_by_transaction(active, node, p, decoder) ==
  Then(get_transaction_logs(node, p["transaction"]), LAMBDA logs :
    [dt \in active |-> transform(SelectSeq(logs, LAMBDA log : shape(dt, log)),
                                 LAMBDA log : rows_of(dt, log, decoder))])
=============================================================================
