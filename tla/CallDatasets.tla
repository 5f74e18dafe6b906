---------------------------- MODULE CallDatasets ----------------------------
(***************************************************************************)
(* The datasets that read state at a block: accounts and storage, and what *)
(* contracts answer to a call, on their own or through Multicall3.         *)
(*                                                                         *)
(* A node is [calls, gas_cap, balances, codes, nonces, storage]; calls     *)
(* gives, for <<target, call>>, the gas it takes and its answer: Ok(data)  *)
(* or an error [ok, by, resp, retry, code, evm].  by, "node" or            *)
(* "contract", says whose failure it was; the program cannot see it and    *)
(* tells by the others, as errors.rs does.                                 *)
(* Data is [len, word, text]: word is <<high, mid, low>>, the 12, 16 and 4 *)
(* bytes of a word; text what a string decoder makes of it, an option.     *)
(* A parameter is [width, val].                                            *)
(***************************************************************************)
EXTENDS Results, Integers, Sequences, SequencesExt, FiniteSetsExt

Empty == [len |-> 0, word |-> <<0, 0, 0>>, text |-> None]
OutOfGas == [ok |-> FALSE, by |-> "contract", resp |-> TRUE, retry |-> FALSE, code |-> -32000, evm |-> TRUE]

-----------------------------------------------------------------------------
(* Whose failure it is                                                     *)

EXECUTION_REVERTED_CODE == 3

\* Mutant: an answer that tells us to slow down is taken for the contract's.
Mutcall_outcome(error) ==
  IF ~error.resp THEN "NodeFailed"
  ELSE IF error.code = EXECUTION_REVERTED_CODE \/ error.evm THEN "ContractRefused"
  ELSE "NodeFailed"

\* A throttle first, then the code, then the EVM's own words.
call_outcome(error) ==
  IF ~error.resp \/ error.retry THEN "NodeFailed"
  ELSE IF error.code = EXECUTION_REVERTED_CODE \/ error.evm THEN "ContractRefused"
  ELSE "NodeFailed"

contract_read(result) ==
  IF result.ok THEN Ok(Some(result.val))
  ELSE IF call_outcome(result) = "ContractRefused" THEN Ok(None)
  ELSE Err

-----------------------------------------------------------------------------
(* What an answer says                                                     *)

bytes_to_u32(data) ==
  IF data.len = 32 /\ data.word[1] = 0 /\ data.word[2] = 0 THEN Some(data.word[3]) ELSE None

decode_u256_word(data) == IF data.len = 32 THEN Some(data.word) ELSE None

decode_bytes32_word(data) == IF data.len = 32 THEN Some(data.word) ELSE None

decode_address_word(data) ==
  IF data.len = 32 /\ data.word[1] = 0 THEN Some(<<data.word[2], data.word[3]>>) ELSE None

decode_bool_word(data) ==
  {w[3] = 1 : w \in decode_u256_word(data) \cap {<<0, 0, 0>>, <<0, 0, 1>>}}

\* Thirty-two bytes, or the layout of a string; control characters and spaces are taken out.
decode_string_or_bytes32(data) == IF data.len = 32 \/ data.len >= 64 THEN data.text ELSE None

-----------------------------------------------------------------------------
(* Two ways to ask                                                         *)

Call(target, data) == <<target.val, data>>

\* The node that fails never gets to run the call.
NodeFails(answer) == ~answer.ok /\ answer.by = "node"

\* call_with_gas_limit, call2 and call: a call takes what it takes or runs out.
call_with_gas_limit(node, call, limit) ==
  LET asked == node.calls[call]
  IN IF ~NodeFails(asked.answer) /\ asked.gas > Min({limit, node.gas_cap}) THEN OutOfGas
     ELSE asked.answer
call2(node, call) == call_with_gas_limit(node, call, node.gas_cap)

\* The deployed Multicall3: each inner call may use all the gas that is left.
aggregate3(node, calls) ==
  LET step(acc, call) ==
        LET short == node.calls[call].gas > acc.left
            answer == node.calls[call].answer
            success == ~short /\ answer.ok
        IN [left |-> IF short THEN 0 ELSE acc.left - node.calls[call].gas,
            results |-> Append(acc.results,
              [success |-> success, returnData |-> IF success THEN answer.val ELSE Empty])]
  IN IF \E i \in DOMAIN calls : NodeFails(node.calls[calls[i]].answer) THEN Err
     ELSE Ok(FoldLeft(step, [left |-> node.gas_cap, results |-> <<>>], calls).results)

\* extract_by_eth_call up to decode_row: one call after the other, in the shape aggregate3 gives.
extract_by_eth_call(node, calls) ==
  LET outputs == [i \in DOMAIN calls |-> contract_read(call2(node, calls[i]))]
  IN IF \E i \in DOMAIN outputs : ~outputs[i].ok THEN Err
     ELSE Ok([i \in DOMAIN outputs |->
            [success |-> outputs[i].val # None,
             returnData |-> IF outputs[i].val = None THEN Empty ELSE Unwrap(outputs[i].val)]])

\* A batch that fails ends up asking for its row on its own.
results_of(node, calls, multicall) ==
  LET batch == aggregate3(node, calls)
  IN IF multicall /\ batch.ok THEN batch ELSE extract_by_eth_call(node, calls)

Read(result, decode(_)) == IF result.success THEN decode(result.returnData) ELSE None

\* ethers_address and its like: twenty bytes.
Address(p, dims) == \A d \in dims : d \in DOMAIN p /\ p[d].width = 20

-----------------------------------------------------------------------------
(* Contracts                                                               *)

\* Multicall makes a null of an answer without data, a call of its own does not.
eth_calls(node, p, multicall) ==
  LET call == Call(p["contract"], p["call_data"].val)
      batch == aggregate3(node, <<call>>)
      alone == contract_read(call2(node, call))
      row(output) == [contract_address |-> p["contract"].val, call_data |-> p["call_data"].val,
                      output_data |-> output]
  IN IF ~Address(p, {"contract"}) THEN Err
     ELSE IF multicall /\ batch.ok
     THEN Ok(row(IF batch.val[1].success /\ batch.val[1].returnData.len > 0
                 THEN Some(batch.val[1].returnData) ELSE None))
     ELSE IF alone.ok THEN Ok(row(alone.val)) ELSE Err

erc20_balances(node, p, multicall) ==
  LET r == results_of(node, <<Call(p["contract"], <<"balanceOf", p["address"].val>>)>>, multicall)
  IN IF ~Address(p, {"address", "contract"}) THEN Err
     ELSE IF ~r.ok THEN Err
     ELSE Ok([erc20 |-> p["contract"].val, address |-> p["address"].val,
              balance |-> Read(r.val[1], decode_u256_word)])

erc20_allowances(node, p, multicall) ==
  LET call == Call(p["contract"], <<"allowance", p["from_address"].val, p["to_address"].val>>)
      r == results_of(node, <<call>>, multicall)
  IN IF ~Address(p, {"from_address", "to_address", "contract"}) THEN Err
     ELSE IF ~r.ok THEN Err
     ELSE Ok([erc20 |-> p["contract"].val, from |-> p["from_address"].val, to |-> p["to_address"].val,
              allowance |-> Read(r.val[1], decode_u256_word)])

erc20_supplies(node, p, multicall) ==
  LET r == results_of(node, <<Call(p["address"], <<"totalSupply">>)>>, multicall)
  IN IF ~Address(p, {"address"}) THEN Err
     ELSE IF ~r.ok THEN Err
     ELSE Ok([erc20 |-> p["address"].val, total_supply |-> Read(r.val[1], decode_u256_word)])

erc20_metadata(node, p, multicall) ==
  LET r == results_of(node, [i \in 1 .. 3 |-> Call(p["address"], <<(<<"name", "symbol", "decimals">>)[i]>>)],
                      multicall)
  IN IF ~Address(p, {"address"}) THEN Err
     ELSE IF ~r.ok THEN Err
     ELSE Ok([erc20 |-> p["address"].val, name |-> Read(r.val[1], decode_string_or_bytes32),
              symbol |-> Read(r.val[2], decode_string_or_bytes32),
              decimals |-> Read(r.val[3], bytes_to_u32)])

erc721_metadata(node, p, multicall) ==
  LET r == results_of(node, [i \in 1 .. 2 |-> Call(p["address"], <<(<<"name", "symbol">>)[i]>>)], multicall)
  IN IF ~Address(p, {"address"}) THEN Err
     ELSE IF ~r.ok THEN Err
     ELSE Ok([erc721 |-> p["address"].val, name |-> Read(r.val[1], decode_string_or_bytes32),
              symbol |-> Read(r.val[2], decode_string_or_bytes32)])

erc4626_metadata(node, p, multicall) ==
  LET names == <<"asset", "totalAssets", "totalSupply">>
      r == results_of(node, [i \in DOMAIN names |-> Call(p["address"], <<names[i]>>)], multicall)
  IN IF ~Address(p, {"address"}) THEN Err
     ELSE IF ~r.ok THEN Err
     ELSE Ok([erc4626 |-> p["address"].val, asset |-> Read(r.val[1], decode_address_word),
              total_assets |-> Read(r.val[2], decode_u256_word),
              total_supply |-> Read(r.val[3], decode_u256_word)])

\* extract: the second call only for the column it fills.
erc2612_extract(node, p, schema) ==
  LET nonce == contract_read(call2(node, Call(p["contract"], <<"nonces", p["address"].val>>)))
      domain == IF "domain_separator" \in schema
                THEN contract_read(call2(node, Call(p["contract"], <<"DOMAIN_SEPARATOR">>)))
                ELSE Ok(None)
  IN IF ~Address(p, {"address", "contract"}) THEN Err
     ELSE IF ~nonce.ok \/ ~domain.ok THEN Err
     ELSE Ok([erc20 |-> p["contract"].val, address |-> p["address"].val,
              nonce |-> UNION {decode_u256_word(d) : d \in nonce.val},
              domain_separator |-> UNION {decode_bytes32_word(d) : d \in domain.val}])

\* The batch asks for both, whatever the columns.
erc2612_multicall(node, p, schema) ==
  LET r == aggregate3(node, <<Call(p["contract"], <<"nonces", p["address"].val>>),
                              Call(p["contract"], <<"DOMAIN_SEPARATOR">>)>>)
  IN IF ~Address(p, {"address", "contract"}) THEN Err
     ELSE IF ~r.ok THEN erc2612_extract(node, p, schema)
     ELSE Ok([erc20 |-> p["contract"].val, address |-> p["address"].val,
              nonce |-> Read(r.val[1], decode_u256_word),
              domain_separator |-> Read(r.val[2], decode_bytes32_word)])

\* The invalid id first.
PROBES ==
  <<"answers_true_to_everything", "supports_erc165", "supports_erc721", "supports_erc721_metadata",
    "supports_erc721_enumerable", "supports_erc1155", "supports_erc1155_metadata_uri",
    "supports_erc2981", "supports_erc1271">>
PROBE_GAS_LIMIT == 30000

ProbeOf(p, i) == Call(p["address"], <<"supportsInterface", PROBES[i]>>)

\* The columns, in the order of the probes.
interfaces_transform(p, answers) ==
  [address |-> p["address"].val,
   supports |-> [c \in ToSet(PROBES) |-> answers[CHOOSE i \in DOMAIN PROBES : PROBES[i] = c]]]

interfaces_extract(node, p) ==
  LET outputs == [i \in DOMAIN PROBES |->
                    contract_read(call_with_gas_limit(node, ProbeOf(p, i), PROBE_GAS_LIMIT))]
  IN IF ~Address(p, {"address"}) THEN Err
     ELSE IF \E i \in DOMAIN outputs : ~outputs[i].ok THEN Err
     ELSE Ok(interfaces_transform(p, [i \in DOMAIN PROBES |->
            UNION {decode_bool_word(d) : d \in outputs[i].val}]))

\* Nothing limits a probe here, so one may leave the next ones without gas.
interfaces_multicall(node, p) ==
  LET r == aggregate3(node, [i \in DOMAIN PROBES |-> ProbeOf(p, i)])
  IN IF ~Address(p, {"address"}) THEN Err
     ELSE IF ~r.ok THEN interfaces_extract(node, p)
     ELSE Ok(interfaces_transform(p, [i \in DOMAIN PROBES |-> Read(r.val[i], decode_bool_word)]))

-----------------------------------------------------------------------------
(* Accounts and storage                                                    *)

\* The extractor's words, and one request for each of them, are those of the node.
balances(node, p) ==
  IF Address(p, {"address"})
  THEN Ok([address |-> p["address"].val, balance |-> node.balances[p["address"].val]]) ELSE Err

nonces(node, p) ==
  IF Address(p, {"address"})
  THEN Ok([address |-> p["address"].val, nonce |-> node.nonces[p["address"].val]]) ELSE Err

\* A delegation is its prefix and an address, nothing more; code is [len, prefix, address].
delegate_address(code) ==
  IF code.len = 23 /\ code.prefix = "ef0100" THEN Some(code.address) ELSE None

codes(node, p) ==
  IF ~Address(p, {"address"}) THEN Err
  ELSE LET code == node.codes[p["address"].val]
       IN Ok([address |-> p["address"].val, code |-> code,
              is_delegated |-> delegate_address(code) # None, delegate_address |-> delegate_address(code)])

slots(node, p) ==
  IF Address(p, {"address"}) /\ p["slot"].width <= 32
  THEN Ok([address |-> p["address"].val, slot |-> p["slot"].val,
           value |-> node.storage[<<p["address"].val, p["slot"].val>>]])
  ELSE Err

\* The low twenty bytes, unless they are all zero.
word_as_address(word) ==
  IF word[2] = 0 /\ word[3] = 0 THEN None ELSE Some(<<word[2], word[3]>>)

proxy_slots(node, p) ==
  LET words == [s \in {"implementation", "admin", "beacon"} |-> node.storage[<<p["address"].val, s>>]]
  IN IF Address(p, {"address"})
     THEN Ok([address |-> p["address"].val,
              slots |-> [s \in DOMAIN words |-> word_as_address(words[s])]])
     ELSE Err
=============================================================================
