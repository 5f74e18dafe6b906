---------------------------- MODULE BeaconClient ----------------------------
(***************************************************************************)
(* The beacon node and the blob archive, and the datasets made of them:    *)
(* blobs, and the requests of deposits, withdrawals and consolidations.    *)
(*                                                                         *)
(* The net is [genesis, spec, sidecars, blinded, blocks, archive]: the     *)
(* answer of each address, by slot or by execution block.  An answer is    *)
(* [status, body] with status 200, or else [status, quoted]: 404, another  *)
(* error, or 0 for no answer at all, and quoted tells whether the text     *)
(* sent along has "returned 404" in it.                                    *)
(***************************************************************************)
EXTENDS Results, Integers, Sequences, SequencesExt, FiniteSetsExt

Failed(not_found) == [ok |-> FALSE, not_found |-> not_found]

\* The error of a failed request quotes the status and the start of the body.
get_json(answer) ==
  IF answer.status = 200 THEN Ok(answer.body)
  ELSE Failed(answer.status = 404 \/ (answer.status # 0 /\ answer.quoted))

\* is_not_found looks for "returned 404" in what get_json wrote.
is_not_found(error) == error.not_found

-----------------------------------------------------------------------------
(* The clock                                                               *)

Number(spec, key) == IF key \in DOMAIN spec THEN Some(spec[key]) ELSE None

\* The blob limits, by epoch; entries of the schedule that cannot be read are passed over.
blob_schedule(spec) ==
  LET base == {<<e, m>> : e \in Number(spec, "DENEB_FORK_EPOCH"), m \in Number(spec, "MAX_BLOBS_PER_BLOCK")}
      raises == UNION {Number(spec, "BLOB_SCHEDULE")}
  IN SetToSortSeq(base \cup raises,
       LAMBDA a, b : a[1] < b[1] \/ (a[1] = b[1] /\ a[2] < b[2]))

read_config(net) ==
  LET genesis == get_json(net.genesis)
      spec == get_json(net.spec)
  IN IF \/ ~genesis.ok \/ ~spec.ok
        \/ Number(spec.val, "SECONDS_PER_SLOT") = None
        \/ Number(spec.val, "SLOTS_PER_EPOCH") = None
     THEN Err
     ELSE Ok([genesis_time |-> genesis.val,
              seconds_per_slot |-> spec.val["SECONDS_PER_SLOT"],
              slots_per_epoch |-> spec.val["SLOTS_PER_EPOCH"],
              blob_schedule |-> blob_schedule(spec.val)])

\* There is no clock without a beacon node to read it from.
connect(net, beacon_url, archive_url) ==
  LET config == read_config(net)
  IN IF ~beacon_url /\ ~archive_url THEN Err
     ELSE IF beacon_url /\ ~config.ok THEN Err
     ELSE Ok([net |-> net, beacon_url |-> beacon_url, archive_url |-> archive_url,
              config |-> IF beacon_url THEN Some(config.val) ELSE None])

slot_at_timestamp(config, timestamp) ==
  IF config.seconds_per_slot = 0 \/ timestamp < config.genesis_time THEN None
  ELSE Some((timestamp - config.genesis_time) \div config.seconds_per_slot)

epoch_of_slot(config, slot) ==
  IF config.slots_per_epoch = 0 THEN 0 ELSE slot \div config.slots_per_epoch

\* The last limit to have been activated.
max_blobs_at_epoch(config, epoch) ==
  LET past == {i \in DOMAIN config.blob_schedule : config.blob_schedule[i][1] <= epoch}
  IN IF past = {} THEN None ELSE Some(config.blob_schedule[Max(past)][2])

-----------------------------------------------------------------------------
(* Blobs.  A sidecar is [index, hash, slot, proposer], hash None if its    *)
(* commitment is not one; a block of the archive is [slot, txs], each of   *)
(* them [rollup, blobs], and a blob [index, hash].                         *)

beacon_sidecars(net, slot) ==
  LET answer == get_json(net.sidecars[slot])
  IN IF answer.ok THEN answer ELSE IF is_not_found(answer) THEN Ok(<<>>) ELSE answer

versioned_hash(sidecar) == sidecar.hash

\* A blob whose index is missing has that of its place in its transaction.
archive_blobs(net, number) ==
  LET answer == get_json(net.archive[number])
      record(tx, i) ==
        [index |-> IF tx.blobs[i].index = None THEN i - 1 ELSE Unwrap(tx.blobs[i].index),
         versioned_hash |-> tx.blobs[i].hash, bytes |-> FALSE, rollup |-> tx.rollup,
         slot |-> answer.val.slot, proposer_index |-> None, provenance |-> "archive"]
  IN IF answer.ok
     THEN Ok(FlattenSeq([t \in DOMAIN answer.val.txs |->
               [i \in DOMAIN answer.val.txs[t].blobs |-> record(answer.val.txs[t], i)]]))
     ELSE IF is_not_found(answer) THEN Ok(<<>>) ELSE answer

FromSidecars(sidecars) ==
  [i \in DOMAIN sidecars |->
     [index |-> sidecars[i].index, versioned_hash |-> versioned_hash(sidecars[i]), bytes |-> TRUE,
      rollup |-> None, slot |-> Some(sidecars[i].slot), proposer_index |-> Some(sidecars[i].proposer),
      provenance |-> "beacon_node"]]

\* The node first; the archive if that gave nothing, for whatever reason.
blobs_for_block(beacon, number, slot) ==
  LET asked == beacon.beacon_url /\ slot # None
      sidecars == IF asked THEN beacon_sidecars(beacon.net, Unwrap(slot)) ELSE Ok(<<>>)
  IN IF sidecars.ok /\ sidecars.val # <<>> THEN Ok(FromSidecars(sidecars.val))
     ELSE IF beacon.archive_url THEN archive_blobs(beacon.net, number)
     ELSE sidecars

\* A hash in several transactions goes to the last.
blob_carriers(txs) ==
  LET blobs == {i \in DOMAIN txs : txs[i].blob_hashes # None}
      hashes == UNION {ToSet(Unwrap(txs[i].blob_hashes)) : i \in blobs}
  IN [h \in hashes |-> txs[Max({i \in blobs : h \in ToSet(Unwrap(txs[i].blob_hashes))})].hash]

\* block is a result, txs its transactions.
blobs_extract(beacon, block) ==
  IF beacon = None \/ ~block.ok THEN Err
  ELSE LET source == Unwrap(beacon)
           slot == UNION {slot_at_timestamp(c, block.val.timestamp) : c \in source.config}
           epoch == {epoch_of_slot(c, s) : c \in source.config, s \in slot}
           blobs == blobs_for_block(source, block.val.number, slot)
       IN IF blobs.ok THEN Ok([block |-> block.val, slot |-> slot, epoch |-> epoch, blobs |-> blobs.val])
          ELSE Err

blobs_transform(response, txs) ==
  LET carriers == blob_carriers(txs)
  IN [i \in DOMAIN response.blobs |->
       LET blob == response.blobs[i]
       IN [block_number |-> response.block.number,
           slot |-> IF blob.slot # None THEN blob.slot ELSE response.slot,
           epoch |-> response.epoch, blob_index |-> blob.index, versioned_hash |-> blob.versioned_hash,
           transaction_hash |-> {carriers[h] : h \in blob.versioned_hash \cap DOMAIN carriers},
           rollup |-> blob.rollup, proposer_index |-> blob.proposer_index, blob |-> blob.bytes,
           blob_source |-> blob.provenance]]

-----------------------------------------------------------------------------
(* Requests.  A beacon block is [slot, proposer, number, requests]; number *)
(* is the execution block it carries, an option, as are the requests.      *)

beacon_block(answer) ==
  LET block == get_json(answer)
  IN IF block.ok THEN Ok(Some(block.val)) ELSE IF is_not_found(block) THEN Ok(None) ELSE block

\* Mutant: what the beacon block says of its execution block is not compared.
Mutexecution_requests_for_block(beacon, number, slot) ==
  LET blinded == beacon_block(beacon.net.blinded[slot])
      block == IF blinded.ok /\ blinded.val # None THEN blinded
               ELSE beacon_block(beacon.net.blocks[slot])
  IN IF ~beacon.beacon_url \/ ~block.ok THEN Err
     ELSE IF block.val = None THEN Err
     ELSE IF Unwrap(block.val).requests = None THEN Ok(None)
     ELSE Ok(block.val)

\* The full block when the blinded one is not to be had, for whatever reason.
execution_requests_for_block(beacon, number, slot) ==
  LET blinded == beacon_block(beacon.net.blinded[slot])
      block == IF blinded.ok /\ blinded.val # None THEN blinded
               ELSE beacon_block(beacon.net.blocks[slot])
  IN IF ~beacon.beacon_url \/ ~block.ok THEN Err
     ELSE IF block.val = None THEN Err
     ELSE IF Unwrap(block.val).requests = None THEN Ok(None)
     ELSE IF \E n \in Unwrap(block.val).number : n # number THEN Err
     ELSE Ok(block.val)

beacon_requests_fetch(beacon, block) ==
  IF beacon = None \/ ~block.ok THEN Err
  ELSE LET source == Unwrap(beacon)
           slot == UNION {slot_at_timestamp(c, block.val.timestamp) : c \in source.config}
           found == execution_requests_for_block(source, block.val.number, Unwrap(slot))
       IN IF source.config = None \/ slot = None THEN Err
          ELSE IF ~found.ok THEN Err
          ELSE Ok([block_number |-> block.val.number, slot |-> Unwrap(slot),
                   epoch |-> epoch_of_slot(Unwrap(source.config), Unwrap(slot)),
                   requests |-> UNION {b.requests : b \in found.val}])

\* Types 1 and 2 of 32 bytes hold an address.
withdrawal_address(credentials) ==
  IF credentials.width = 32 /\ credentials.type \in {1, 2} THEN Some(credentials.address) ELSE None

\* requests is None before Electra; its lists are "deposits", "withdrawals" and "consolidations".
deposit_rows(response) ==
  FlattenSeq([n \in 1 .. Cardinality(response.requests) |->
    LET list == Unwrap(response.requests).deposits
    IN [i \in DOMAIN list |->
         [block_number |-> response.block_number, slot |-> response.slot, request_index |-> i - 1,
          withdrawal_address |-> withdrawal_address(list[i].credentials), amount |-> list[i].amount,
          deposit_index |-> list[i].index]]])

withdrawal_rows(response) ==
  FlattenSeq([n \in 1 .. Cardinality(response.requests) |->
    LET list == Unwrap(response.requests).withdrawals
    IN [i \in DOMAIN list |->
         [block_number |-> response.block_number, slot |-> response.slot, request_index |-> i - 1,
          amount |-> list[i].amount, is_full_exit |-> list[i].amount = 0]]])

consolidation_rows(response) ==
  FlattenSeq([n \in 1 .. Cardinality(response.requests) |->
    LET list == Unwrap(response.requests).consolidations
    IN [i \in DOMAIN list |->
         [block_number |-> response.block_number, slot |-> response.slot, request_index |-> i - 1,
          source |-> list[i].source, target |-> list[i].target,
          is_credential_upgrade |-> list[i].source = list[i].target]]])
=============================================================================
