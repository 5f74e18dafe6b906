----------------------------- MODULE MCDatasets -----------------------------
(* One block of two transactions, told in as many ways as the datasets     *)
(* tell apart, and every form of a request for it.                         *)
EXTENDS Datasets

-----------------------------------------------------------------------------
(* Logs: one of every family, next to one that shares its signature        *)

L(topics, size, body) == [topics |-> topics, size |-> size, body |-> body, mined |-> TRUE]
Shapes ==
  <<L(<<"Transfer", "a", "b">>, 32, <<1>>), L(<<"Transfer", "b", "a">>, 32, <<1>>),
    L(<<"Transfer", "a", "b", "id">>, 0, <<>>), L(<<"Transfer", "a", "b">>, 64, <<>>),
    L(<<"Approval", "a", "b">>, 32, <<1>>), L(<<"WrapperDeposit", "a">>, 32, <<1>>),
    L(<<"ApprovalForAll", "a", "b">>, 32, <<1>>), L(<<"TransferSingle", "o", "a", "b">>, 64, <<1, 2>>),
    L(<<"TransferBatch", "a", "a", "b">>, 256, <<<<1, 1>>, <<3, 3>>>>),
    L(<<"TransferBatch", "o", "a", "b">>, 224, <<<<1, 1>>, <<3>>>>),
    L(<<"Sent", "o", "a", "b">>, 128, <<1>>), L(<<"Minted", "a", "b">>, 128, <<1>>),
    L(<<"Withdraw", "a", "b", "o">>, 64, <<1, 1>>), L(<<"URI", "a">>, 96, <<"x", TRUE>>),
    L(<<"Upgraded">>, 32, <<"i">>), L(<<"AdminChanged">>, 64, <<"a", "b">>), L(<<>>, 0, <<>>),
    [L(<<"Transfer", "a", "b">>, 32, <<1>>) EXCEPT !.mined = FALSE]>>

At(log, address, tx) == log @@ [block |-> 1, tx |-> tx, index |-> tx - 1, address |-> address]

D(width, val) == [width |-> width, val |-> val]
Dims ==
  {<<>>, "address" :> D(20, "t"), "address" :> D(19, "t"), "topic0" :> D(32, "Transfer"),
   "topic1" :> D(32, "a"), "topic1" :> D(20, "a"), "from_address" :> D(20, "a"), "to_address" :> D(20, "b"),
   "from_address" :> D(33, "a"), ("from_address" :> D(20, "a")) @@ ("to_address" :> D(20, "b")),
   ("from_address" :> D(20, "a")) @@ ("topic1" :> D(32, "a")),
   ("from_address" :> D(20, "a")) @@ ("topic1" :> D(32, "b")),
   ("topic0" :> D(32, "Approval")) @@ ("from_address" :> D(32, "a"))}

Groups ==
  {{"logs", "erc20_transfers"}, {"erc20_transfers", "erc721_transfers"},
   {"erc20_transfers", "erc20_wrapper_events"}, {"erc20_approvals", "erc20_transfers", "logs"},
   {"erc20_approvals", "erc721_transfers", "erc20_wrapper_events"}}

TwoTxs == [blocks |-> [b \in {1} |-> [number |-> 1, txs |-> <<1, 2>>, author |-> "m", timestamp |-> 10]]]

MCLogInputs ==
  {[part |-> "logs", active |-> active, decoder |-> decoder, p |-> ("block_range" :> <<1, 1>>) @@ dims,
    node |-> TwoTxs @@ [receipts |-> <<"r1", "r2">>, logs |-> <<At(Shapes[k], "t", 1), At(Shapes[m], "u", 2)>>]] :
     k \in DOMAIN Shapes, m \in {2, 3, 6}, dims \in Dims, active \in Groups, decoder \in BOOLEAN}

-----------------------------------------------------------------------------
(* Traces: a call, a call or creation in it and one in that, and a second  *)

T(tx, path, kind, from, to, error) ==
  [tx |-> tx, path |-> path, kind |-> kind, from |-> from, to |-> to, error |-> error,
   created |-> IF kind = "create" /\ ~error THEN {to} ELSE {}]

Tree(kinds, errors) ==
  <<T(1, <<>>, kinds[1], "a", "b", errors[1]), T(1, <<0>>, kinds[2], "b", "c", errors[2]),
    T(1, <<0, 0>>, kinds[3], "c", "d", errors[3]), T(1, <<1>>, "suicide", "b", "a", FALSE)>>

Second == <<T(2, <<>>, "call", "d", "e", FALSE), T(2, <<0>>, "create", "e", "f", FALSE)>>
Reward == T(0, <<>>, "reward", "m", "m", FALSE)

MCTraceInputs ==
  {[part |-> "traces", exclude_failed |-> exclude, p |-> [number |-> 1, hash |-> 0, from |-> from, to |-> to],
    node |-> TwoTxs @@ [txs |-> [h \in {1, 2} |-> [hash |-> h, block |-> Some(1)]],
                        receipts |-> <<"r1", "r2">>,
                        logs |-> <<At(Shapes[1], "t", 1), At(Shapes[3], "t", 2)>>,
                        traces |-> <<Tree(kinds, errors), Second>>,
                        rewards |-> [b \in {1} |-> <<Reward>>]]] :
     kinds \in [1 .. 3 -> {"call", "create"}], errors \in [1 .. 3 -> BOOLEAN], exclude \in BOOLEAN,
     from \in {{}, {"a"}, {"e"}}, to \in {{}, {"c"}}}

-----------------------------------------------------------------------------
(* State: an account that comes, changes and goes, and one that stays      *)

Nothing == [balance |-> 0, nonce |-> 0, code |-> 0, slot |-> 0]
Accounts ==
  {Nothing} \cup {[balance |-> b, nonce |-> n, code |-> 7 * c, slot |-> c * v] :
                    b \in {0, 3}, n \in {1, 2}, c \in {0, 1}, v \in {0, 5}}
Exists(account) == account # Nothing

\* Parity's deltas of an account that changed.
DeltaOf(x, y, f) ==
  IF ~Exists(x) THEN [kind |-> "added", from |-> 0, to |-> y[f]]
  ELSE IF ~Exists(y) THEN [kind |-> "removed", from |-> x[f], to |-> 0]
  ELSE [kind |-> IF x[f] = y[f] THEN "unchanged" ELSE "changed", from |-> x[f], to |-> y[f]]
ParityDiff(x, y) ==
  [f \in {"balance", "nonce", "code"} |-> DeltaOf(x, y, f)]
    @@ ("slots" :> [s \in {"s" : n \in {1} \cap {IF x.slot # y.slot THEN 1 ELSE 0}} |-> DeltaOf(x, y, "slot")])

\* Geth's two maps: all of the account before, what changed of it after; a slot of 0 is left out.
GethAccount(account, fields, keys) ==
  [f \in fields |-> account[f]] @@ ("slots" :> [s \in keys |-> account.slot])
SlotOf(x, y, account) == IF x.slot # y.slot /\ account.slot # 0 THEN {"s"} ELSE {}
GethDiff(x, y) ==
  [pre |-> IF Exists(x)
           THEN "acc" :> GethAccount(x, {f \in {"nonce", "code"} : x[f] # 0} \cup {"balance"}, SlotOf(x, y, x))
           ELSE <<>>,
   post |-> IF Exists(y)
            THEN "acc" :> GethAccount(y, {f \in {"balance", "nonce", "code"} : x[f] # y[f]}, SlotOf(x, y, y))
            ELSE <<>>]
Prestate(x) ==
  "acc" :> GethAccount(x, {f \in {"nonce", "code"} : x[f] # 0} \cup {"balance"}, IF x.slot # 0 THEN {"s"} ELSE {})

Frame == [from |-> "a", calls |-> <<[from |-> "b", calls |-> <<>>], [from |-> "c", calls |-> <<>>]>>]
Ops == <<[pc |-> 0, sub |-> <<[pc |-> 7, sub |-> <<>>]>>], [pc |-> 1, sub |-> <<>>]>>

Replayed(x, y) ==
  [state_diff |-> IF x = y THEN <<>> ELSE "acc" :> ParityDiff(x, y), vm_trace |-> Some(Ops)]
Debugged(x, y, fourbyte) ==
  [prestate |-> [kind |-> "prestate", val |-> Prestate(x)],
   diff |-> [kind |-> "diff", val |-> IF x = y THEN [pre |-> <<>>, post |-> <<>>] ELSE GethDiff(x, y)],
   call |-> [kind |-> "call", val |-> Frame],
   default |-> [kind |-> "default", val |-> [ops |-> <<1, 2>>, return_value |-> "r"]],
   js |-> [kind |-> "js", val |-> "js"]] @@ ("4byte" :> [kind |-> fourbyte, val |-> <<<<"sig", 4, 1>>>>])

StateDatatypes ==
  {"balance_diffs", "code_diffs", "nonce_diffs", "storage_diffs", "geth_balance_diffs", "geth_code_diffs",
   "geth_nonce_diffs", "geth_storage_diffs", "traces"} \cup ToSet(read_datasets)

MCStateInputs ==
  {[part |-> "state", js_tracer |-> IF first = 0 THEN None ELSE Some("t"),
    states |-> <<"acc" :> x, "acc" :> y, "acc" :> z>>,
    schemas |-> [dt \in StateDatatypes |->
                   IF first = 1 /\ dt \in {"balance_diffs", "balance_reads", "geth_balance_diffs", "traces"}
                   THEN {"block_number"} ELSE {"block_number", "transaction_hash"}],
    node |-> TwoTxs @@ [txs |-> [h \in {1, 2} |-> [hash |-> h, block |-> Some(1)]],
                        replay |-> <<Replayed(x, y), Replayed(y, z)>>,
                        debug |-> <<Debugged(x, y, IF first = 0 THEN "noop" ELSE "4byte"), Debugged(y, z, "4byte")>>]] :
     x \in Accounts, y \in Accounts, z \in Accounts, first \in {0, 1}}

-----------------------------------------------------------------------------
(* Transactions                                                            *)

Tx(h, from, to, lists, kind, price) ==
  [hash |-> h, block |-> Some(1), from |-> from, to |-> to, type |-> kind, chain_id |-> Some(1),
   y_parity |-> 1, tip |-> 1, max_fee |-> 9, price |-> price, access_list |-> lists,
   authorizations |-> IF kind < 4 THEN None ELSE Some(<<[authority |-> None, address |-> "d", y_parity |-> 2]>>),
   blob_hashes |-> None]
Receipt(h, status) ==
  [hash |-> h, status |-> status, gas_used |-> 20 + h, price |-> 5 + h,
   other |-> [f \in FromReceipt |-> h]]

Lists == {None, Some(<<>>), Some(<<[address |-> "x", keys |-> <<>>], [address |-> "y", keys |-> <<"k", "l">>]>>)}

MCTxInputs ==
  {[part |-> "txs", from |-> from, to |-> to, schema |-> schema, exclude_failed |-> exclude,
    node |-> [blocks |-> [b \in {1} |-> [number |-> 1, txs |-> <<1, 2>>, timestamp |-> 10, base_fee |-> Some(3),
                                         withdrawals |-> Some(<<[index |-> 0, amount |-> 2]>>), author |-> "m"]],
              txs |-> <<Tx(1, "a", Some("b"), list, 2, None), Tx(2, "b", None, None, kind, Some(8))>>,
              receipts |-> IF lost /\ ~together THEN 2 :> Receipt(2, TRUE)
                           ELSE <<Receipt(1, status), Receipt(2, TRUE)>>,
              block_receipts |-> together, logs |-> <<>>]] :
     from \in {None, Some("b")}, to \in {None, Some("b")}, exclude \in BOOLEAN, status \in BOOLEAN,
     together \in BOOLEAN, lost \in BOOLEAN, list \in Lists, kind \in {0, 4},
     schema \in {{c} : c \in ReceiptColumns \cup {"v"}}
                  \cup {{"success", "max_fee_per_gas"}, {"n_access_list_addresses", "timestamp"}}}

-----------------------------------------------------------------------------
(* The beacon chain: slots of 10 seconds since 100                         *)

Said(body) == [status |-> 200, body |-> body]
Refused404 == [status |-> 404, quoted |-> FALSE]
NoAnswer == [status |-> 0, quoted |-> FALSE]
Refusals == <<Refused404, [status |-> 500, quoted |-> FALSE], [status |-> 500, quoted |-> TRUE], NoAnswer>>

Requests == [deposits |-> <<[credentials |-> [width |-> 32, type |-> 1, address |-> "w"], amount |-> 1, index |-> 9]>>,
             withdrawals |-> <<[amount |-> 0]>>, consolidations |-> <<[source |-> "p", target |-> "p"]>>]
BeaconBlock(number) == [slot |-> 1, proposer |-> 4, number |-> number, requests |-> Some(Requests)]
ArchiveBlock == [slot |-> None, txs |-> <<[rollup |-> Some("r"), blobs |-> <<[index |-> None, hash |-> Some("h1")]>>]>>]

Sidecars == Refusals \o <<Said(<<>>), Said(<<[index |-> 0, hash |-> Some("h2"), slot |-> 1, proposer |-> 4]>>)>>
Blinded == Refusals \o <<Said(BeaconBlock(Some(7))), Said(BeaconBlock(Some(8)))>>
Full == <<Refused404, Said(BeaconBlock(None)), Said(BeaconBlock(Some(8)))>>
Archive == <<Refused404, Refusals[3], NoAnswer, Said(ArchiveBlock)>>

Everywhere(answer) == [slot \in 0 .. 2 |-> answer]

MCBeaconInputs ==
  {[part |-> "beacon", beacon_url |-> urls[1], archive_url |-> urls[2],
    block |-> [number |-> 7, timestamp |-> time,
               txs |-> <<[hash |-> 1, blob_hashes |-> Some(<<"h1">>)], [hash |-> 2, blob_hashes |-> None],
                         [hash |-> 3, blob_hashes |-> Some(<<"h2", "h1">>)]>>],
    net |-> [genesis |-> [status |-> 200, body |-> 100],
             spec |-> [status |-> 200, body |-> [SECONDS_PER_SLOT |-> 10, SLOTS_PER_EPOCH |-> epoch]],
             sidecars |-> Everywhere(Sidecars[sidecars]), blinded |-> Everywhere(Blinded[blinded]),
             blocks |-> Everywhere(Full[full]),
             archive |-> [b \in {7} |-> Archive[archive]]]] :
     urls \in BOOLEAN \X BOOLEAN, time \in {95, 100, 119}, epoch \in {0, 2},
     sidecars \in DOMAIN Sidecars, blinded \in DOMAIN Blinded, full \in DOMAIN Full, archive \in DOMAIN Archive}

-----------------------------------------------------------------------------
(* Calls                                                                   *)

Word(n) == [len |-> 32, word |-> <<0, 0, n>>, text |-> Some("t")]
Long == [len |-> 96, word |-> <<0, 0, 32>>, text |-> Some("t")]
Failure(by, resp, retry, code, evm) ==
  [ok |-> FALSE, by |-> by, resp |-> resp, retry |-> retry, code |-> code, evm |-> evm]
Answered == {Ok(Word(0)), Ok(Word(1)), Ok(Word(2)), Ok(Long), Ok(Empty)}
\* The last is in words of the node's own.
Refused ==
  {Failure("contract", TRUE, FALSE, 3, TRUE), Failure("contract", TRUE, FALSE, -32000, TRUE),
   Failure("contract", TRUE, FALSE, -32015, FALSE)}
Broken ==
  {Failure("node", TRUE, TRUE, 3, TRUE), Failure("node", FALSE, FALSE, 0, FALSE),
   Failure("node", TRUE, FALSE, -32601, FALSE)}

AllCalls ==
  {<<"c", <<"data">>>>, <<"c", <<"balanceOf", "a">>>>, <<"c", <<"allowance", "f", "g">>>>,
   <<"c", <<"nonces", "a">>>>, <<"c", <<"DOMAIN_SEPARATOR">>>>}
    \cup {<<"a", <<f>>>> : f \in {"totalSupply", "name", "symbol", "decimals", "asset", "totalAssets"}}
    \cup {<<"a", <<"supportsInterface", PROBES[i]>>>> : i \in DOMAIN PROBES}
\* Calls whose gas and answer differ from those of the others.
Different == {<<"c", <<"nonces", "a">>>>, <<"a", <<"name">>>>, <<"a", <<"supportsInterface", PROBES[2]>>>>}

\* The gas of a different call, and what a request may use: enough or not for three calls, for nine,
\* for a probe over its limit, and for one that takes all there is.
Gases == {<<1, 3>>, <<1, 100000>>, <<40000, 100000>>, <<40000, 35000>>}

MCCallInputs ==
  {[part |-> "calls", schema |-> schema,
    p |-> [address |-> D(width, "a"), contract |-> D(20, "c"), from_address |-> D(20, "f"),
           to_address |-> D(20, "g"), call_data |-> D(4, <<"data">>), slot |-> D(32, "s")],
    node |-> [calls |-> [c \in AllCalls |-> [gas |-> IF c \in Different THEN gas[1] ELSE 1,
                                        answer |-> IF c \in Different THEN one ELSE other]],
              gas_cap |-> gas[2], balances |-> "a" :> 1, nonces |-> "a" :> 1,
              codes |-> "a" :> [len |-> 23, prefix |-> "ef0100", address |-> "d"],
              storage |-> [k \in {"a"} \X {"s", "implementation", "admin", "beacon"} |-> <<0, 0, 1>>]]] :
     one \in Answered \cup Refused \cup Broken, other \in Answered \cup Refused \cup Broken,
     gas \in Gases, width \in {19, 20}, schema \in {{"nonce"}, {"nonce", "domain_separator"}}}
=============================================================================
